---------------------------- MODULE Spec2Model ----------------------------
(***************************************************************************)
(* A model of the video clipper: the transcode command builder and its     *)
(* one-shot audio fallback protocol (src/src/ffmpeg.rs), the time          *)
(* expression parser, formatters and range validation                      *)
(* (src/src/time_parser.rs) and the clip orchestration                     *)
(* (src/src/video_clipper.rs).                                             *)
(*                                                                         *)
(* Text that the code inspects character by character (the tool's          *)
(* diagnostic stream, time expressions) is a sequence of one-character     *)
(* strings.  Command-line tokens and the display string are TLA+ strings.  *)
(* An f64 is a decimal number m / 10^e kept normalised (no trailing zero   *)
(* in the fraction), or one of the special values inf, -inf, NaN; decimal  *)
(* arithmetic is exact, so binary rounding is not modelled.                *)
(***************************************************************************)
EXTENDS Integers, Sequences, FiniteSets, TLC

VARIABLES
    cmd,              \* the FFmpegCommand value (ffmpeg.rs:13-20)
    pc,               \* position of execute(): idle, primary, fallback, done
    spawned,          \* every Command::output() call made so far, in order
    primary_output,   \* what the primary invocation produced
    fallback_output,  \* what the fallback invocation produced
    result,           \* the value execute() returned
    args,             \* last value returned by build_command()
    fallback_args,    \* last value returned by build_fallback_command()
    command_string,   \* last value returned by get_command_string()
    expression,       \* the expression handed to parse_to_seconds
    parsed,           \* the value parse_to_seconds returned
    seconds,          \* the value handed to format_time / format_time_readable
    formatted,        \* the text format_time returned
    readable,         \* the text format_time_readable returned
    start_sec,        \* start of the range, in seconds
    end_sec,          \* end of the range, in seconds
    validated,        \* the value validate_time_range returned
    request,          \* the ClipRequest handed to the VideoClipper
    clip_pc,          \* position of clip_video / prepare_clip_command
    output_path,      \* the output path the clipper chose
    clip_result,      \* the value the clipper returned
    fs,               \* the filesystem: what exists, and every call made on it
    tasks,            \* concurrent invocations of clip_video, by task
    disk              \* what the output files hold, by path

vars == <<cmd, pc, spawned, primary_output, fallback_output, result,
          args, fallback_args, command_string, expression, parsed,
          seconds, formatted, readable, start_sec, end_sec, validated,
          request, clip_pc, output_path, clip_result, fs, tasks, disk>>

ffmpegVars == <<cmd, pc, spawned, primary_output, fallback_output, result,
                args, fallback_args, command_string>>

parserVars == <<expression, parsed>>

timeVars == <<seconds, formatted, readable, start_sec, end_sec, validated>>

clipVars == <<request, clip_pc, output_path, clip_result, fs>>

taskVars == <<tasks, disk>>

-----------------------------------------------------------------------------
(* f64 values                                                              *)

RECURSIVE Pow10(_)
Pow10(n) == IF n = 0 THEN 1 ELSE 10 * Pow10(n - 1)

Abs(n) == IF n < 0 THEN -n ELSE n

RECURSIVE Norm(_, _)
Norm(m, e) ==
    IF e > 0 /\ m % 10 = 0 THEN Norm(m \div 10, e - 1)
    ELSE [k |-> "fin", m |-> m, e |-> e]

Fin(m, e) == Norm(m, e)
Whole(n) == Fin(n, 0)
Inf == [k |-> "inf", m |-> 1, e |-> 0]
NegInf == [k |-> "inf", m |-> -1, e |-> 0]
NaN == [k |-> "nan", m |-> 0, e |-> 0]

DigitStr == <<"0", "1", "2", "3", "4", "5", "6", "7", "8", "9">>

RECURSIVE NatToString(_)
NatToString(n) ==
    IF n < 10 THEN DigitStr[n + 1]
    ELSE NatToString(n \div 10) \o DigitStr[(n % 10) + 1]

RECURSIVE FracToString(_, _)
FracToString(f, e) ==
    IF e = 0 THEN ""
    ELSE FracToString(f \div 10, e - 1) \o DigitStr[(f % 10) + 1]

\* <f64 as Display>::fmt, reached through to_string() and format!("{}")
F64ToString(v) ==
    CASE v.k = "nan" -> "NaN"
      [] v.k = "inf" -> IF v.m < 0 THEN "-inf" ELSE "inf"
      [] OTHER ->
           LET a == Abs(v.m)
               p == Pow10(v.e)
           IN  (IF v.m < 0 THEN "-" ELSE "")
               \o NatToString(a \div p)
               \o (IF v.e = 0 THEN "" ELSE "." \o FracToString(a % p, v.e))

-----------------------------------------------------------------------------
(* FFmpegCommand: construction                                             *)

AudioCodec == {"Copy", "Aac", "Mp3", "Auto"}

with_audio_options(input, output, start_time, duration, audio_codec, preserve_quality) ==
    [input |-> input, output |-> output, start_time |-> start_time,
     duration |-> duration, audio_codec |-> audio_codec,
     preserve_audio_quality |-> preserve_quality]

new_with_copy_policy(input, output, start_time, duration) ==
    [input |-> input, output |-> output, start_time |-> start_time,
     duration |-> duration, audio_codec |-> "Copy",
     preserve_audio_quality |-> TRUE]

new(input, output, start_time, duration) ==
    [input |-> input, output |-> output, start_time |-> start_time,
     duration |-> duration, audio_codec |-> "Auto",
     preserve_audio_quality |-> TRUE]

build_command_mp3_without_bitrate(self) ==
    <<"-i", self.input,
      "-ss", F64ToString(self.start_time),
      "-t", F64ToString(self.duration),
      "-map", "0:v?", "-map", "0:a?", "-c:v", "copy">>
    \o (CASE self.audio_codec = "Aac" ->
               <<"-c:a", "aac">> \o
               (IF self.preserve_audio_quality THEN <<"-b:a", "128k">> ELSE <<>>)
          [] self.audio_codec = "Mp3" -> <<"-c:a", "mp3">>
          [] OTHER -> <<"-c:a", "copy">>)
    \o <<"-avoid_negative_ts", "make_zero", "-async", "1", "-vsync", "2",
         "-y", self.output>>

\* cmd.arg(x) appends one token; the program name is not among get_args()
build_command(self) ==
    LET timing == <<"-i", self.input,
                    "-ss", F64ToString(self.start_time),
                    "-t", F64ToString(self.duration)>>
        mapping == <<"-map", "0:v?", "-map", "0:a?">>
        video == <<"-c:v", "copy">>
        audio ==
            CASE self.audio_codec = "Copy" -> <<"-c:a", "copy">>
              [] self.audio_codec = "Aac" ->
                   <<"-c:a", "aac">> \o
                   (IF self.preserve_audio_quality THEN <<"-b:a", "128k">> ELSE <<>>)
              [] self.audio_codec = "Mp3" ->
                   <<"-c:a", "mp3">> \o
                   (IF self.preserve_audio_quality THEN <<"-b:a", "128k">> ELSE <<>>)
              [] self.audio_codec = "Auto" -> <<"-c:a", "copy">>
        sync == <<"-avoid_negative_ts", "make_zero", "-async", "1", "-vsync", "2">>
    IN  timing \o mapping \o video \o audio \o sync \o <<"-y", self.output>>

build_fallback_command_keeps_mp3(self) ==
    <<"-i", self.input,
      "-ss", F64ToString(self.start_time),
      "-t", F64ToString(self.duration)>>
    \o <<"-map", "0:v?", "-map", "0:a?">>
    \o <<"-c:v", "copy", "-c:a",
         IF self.audio_codec = "Mp3" THEN "mp3" ELSE "aac", "-b:a", "128k">>
    \o <<"-avoid_negative_ts", "make_zero", "-async", "1", "-vsync", "2",
         "-y", self.output>>

build_fallback_command_without_bitrate(self) ==
    <<"-i", self.input,
      "-ss", F64ToString(self.start_time),
      "-t", F64ToString(self.duration)>>
    \o <<"-map", "0:v?", "-map", "0:a?">>
    \o <<"-c:v", "copy", "-c:a", "aac">>
    \o <<"-avoid_negative_ts", "make_zero", "-async", "1", "-vsync", "2",
         "-y", self.output>>

build_fallback_command(self) ==
    <<"-i", self.input,
      "-ss", F64ToString(self.start_time),
      "-t", F64ToString(self.duration)>>
    \o <<"-map", "0:v?", "-map", "0:a?">>
    \o <<"-c:v", "copy", "-c:a", "aac", "-b:a", "128k">>
    \o <<"-avoid_negative_ts", "make_zero", "-async", "1", "-vsync", "2",
         "-y", self.output>>

get_command_string_without_mapping(self) ==
    "ffmpeg -i " \o self.input
    \o " -ss " \o F64ToString(self.start_time)
    \o " -t " \o F64ToString(self.duration)
    \o " -c:v copy "
    \o (CASE self.audio_codec = "Aac" ->
               IF self.preserve_audio_quality THEN "-c:a aac -b:a 128k"
               ELSE "-c:a aac"
          [] self.audio_codec = "Mp3" ->
               IF self.preserve_audio_quality THEN "-c:a mp3 -b:a 128k"
               ELSE "-c:a mp3"
          [] OTHER -> "-c:a copy")
    \o " -avoid_negative_ts make_zero -async 1 -vsync 2 -y " \o self.output

get_command_string(self) ==
    LET audio_codec_str ==
            CASE self.audio_codec = "Copy" -> "-c:a copy"
              [] self.audio_codec = "Aac" ->
                   IF self.preserve_audio_quality THEN "-c:a aac -b:a 128k"
                   ELSE "-c:a aac"
              [] self.audio_codec = "Mp3" ->
                   IF self.preserve_audio_quality THEN "-c:a mp3 -b:a 128k"
                   ELSE "-c:a mp3"
              [] self.audio_codec = "Auto" -> "-c:a copy"
    IN  "ffmpeg -i " \o self.input
        \o " -ss " \o F64ToString(self.start_time)
        \o " -t " \o F64ToString(self.duration)
        \o " -map 0:v? -map 0:a? -c:v copy " \o audio_codec_str
        \o " -avoid_negative_ts make_zero -async 1 -vsync 2 -y " \o self.output

-----------------------------------------------------------------------------
(* Text helpers                                                            *)

UpperLetters == <<"A","B","C","D","E","F","G","H","I","J","K","L","M",
                  "N","O","P","Q","R","S","T","U","V","W","X","Y","Z">>
LowerLetters == <<"a","b","c","d","e","f","g","h","i","j","k","l","m",
                  "n","o","p","q","r","s","t","u","v","w","x","y","z">>

IndexIn(letters, ch) ==
    IF \E i \in 1..Len(letters) : letters[i] = ch
    THEN CHOOSE i \in 1..Len(letters) : letters[i] = ch
    ELSE 0

\* str::to_lowercase, character by character
to_lowercase(text) ==
    [i \in 1..Len(text) |->
        IF IndexIn(UpperLetters, text[i]) > 0
        THEN LowerLetters[IndexIn(UpperLetters, text[i])]
        ELSE text[i]]

to_uppercase(text) ==
    [i \in 1..Len(text) |->
        IF IndexIn(LowerLetters, text[i]) > 0
        THEN UpperLetters[IndexIn(LowerLetters, text[i])]
        ELSE text[i]]

\* str::contains with a string pattern
contains(haystack, needle) ==
    \E i \in 0..(Len(haystack) - Len(needle)) :
        SubSeq(haystack, i + 1, i + Len(needle)) = needle

-----------------------------------------------------------------------------
(* FFmpegCommand::is_audio_error                                           *)

audio_error_indicators == <<
    <<"c","o","d","e","c"," ","n","o","t"," ","c","u","r","r","e","n","t","l","y"," ","s","u","p","p","o","r","t","e","d"," ","i","n"," ","c","o","n","t","a","i","n","e","r">>,
    <<"c","o","u","l","d"," ","n","o","t"," ","f","i","n","d"," ","c","o","d","e","c"," ","p","a","r","a","m","e","t","e","r","s"," ","f","o","r"," ","s","t","r","e","a","m">>,
    <<"i","n","v","a","l","i","d"," ","c","o","d","e","c"," ","t","a","g">>,
    <<"a","u","d","i","o"," ","c","o","d","e","c">>,
    <<"s","t","r","e","a","m"," ","c","o","p","y">>,
    <<"d","o","e","s"," ","n","o","t"," ","s","u","p","p","o","r","t"," ","c","o","d","e","c">> >>

is_audio_error_no_lowercase(stderr) ==
    \E n \in 1..Len(audio_error_indicators) :
        contains(stderr, audio_error_indicators[n])

is_audio_error(stderr) ==
    \E n \in 1..Len(audio_error_indicators) :
        contains(to_lowercase(stderr), to_lowercase(audio_error_indicators[n]))

-----------------------------------------------------------------------------
(* The external tool: what one Command::output() call can produce          *)

\* diagnostics the tool may print that name none of the indicators
OtherDiagnostics == {
    <<>>,
    <<"F","i","l","e"," ","n","o","t"," ","f","o","u","n","d">>,
    <<"P","e","r","m","i","s","s","i","o","n"," ","d","e","n","i","e","d">>,
    <<"N","e","t","w","o","r","k"," ","e","r","r","o","r">>,
    <<"a","u","d","i","o"," ","c","o","d","e">>,
    <<"s","t","r","e","a","m","c","o","p","y">>,
    <<"c","o","d","e","c"," ","n","o","t"," ","s","u","p","p","o","r","t","e","d">> }

DiagnosticCores ==
    OtherDiagnostics \cup {audio_error_indicators[n] : n \in 1..Len(audio_error_indicators)}

\* what surrounds the diagnostic on its line: nothing, or a tag and a trailer
DiagnosticFramings == {
    << <<>>, <<>> >>,
    << <<"[","m","p","4"," ","@"," ","0","x","1","]"," ">>,
       <<" ","f","a","i","l","e","d","!">> >> }

Capitalised(text) ==
    IF text = <<>> THEN text
    ELSE to_uppercase(SubSeq(text, 1, 1)) \o SubSeq(text, 2, Len(text))

\* the standard-error text of a run, after String::from_utf8_lossy
StderrTexts ==
    UNION { { f[1] \o core \o f[2],
              f[1] \o Capitalised(core) \o f[2],
              f[1] \o to_uppercase(core) \o f[2] } :
            <<f, core>> \in DiagnosticFramings \X DiagnosticCores }

\* the standard-error text of the second run
FallbackStderrTexts == {
    <<>>,
    <<"P","e","r","m","i","s","s","i","o","n"," ","d","e","n","i","e","d">>,
    <<"a","u","d","i","o"," ","c","o","d","e","c">>,
    <<"C","o","n","v","e","r","s","i","o","n"," ","f","a","i","l","e","d","!">> }

\* io::Error texts of a failed spawn
SpawnErrorTexts == {
    <<"N","o"," ","s","u","c","h"," ","f","i","l","e"," ","o","r"," ","d","i","r","e","c","t","o","r","y">>,
    <<"a","u","d","i","o"," ","c","o","d","e","c">> }

NoOutput == [status |-> "none", text |-> <<>>]

\* Result<Output, io::Error> of Command::output()
SpawnOutcomes(texts) ==
    [status : {"success", "failure"}, text : texts]
    \cup [status : {"spawn_error"}, text : SpawnErrorTexts]

-----------------------------------------------------------------------------
(* FFmpegCommand::execute                                                  *)

Pending == [tag |-> "none", kind |-> "", msg |-> <<>>, output |-> NoOutput]
Ok(output) == [tag |-> "Ok", kind |-> "", msg |-> <<>>, output |-> output]
Err(kind, msg) == [tag |-> "Err", kind |-> kind, msg |-> msg, output |-> NoOutput]

FFmpegFailedPrefix ==
    <<"F","F","m","p","e","g"," ","f","a","i","l","e","d",":"," ">>
FallbackFailedPrefix ==
    <<"F","F","m","p","e","g"," ","f","a","i","l","e","d"," ","e","v","e","n"," ","w","i","t","h"," ","f","a","l","l","b","a","c","k",":"," ">>

\* one Command::output() call: which invocation, its arguments, and whether
\* the process could be started
Spawn(kind, argv, started) == [kind |-> kind, args |-> argv, started |-> started]

Continue(at) == [pc |-> at, result |-> Pending]
Return(value) == [pc |-> "done", result |-> value]

\* check_ffmpeg_installed()?: only a failed spawn of `ffmpeg -version` is an error
after_probe_reports_tool_failure(started) ==
    IF started THEN Continue("primary") ELSE Return(Err("FFmpegError", <<>>))

after_probe(started) ==
    IF started THEN Continue("primary") ELSE Return(Err("FFmpegNotFound", <<>>))

\* what execute() does with the primary invocation's outcome
after_primary_retries_any_failure(out) ==
    CASE out.status = "spawn_error" -> Return(Err("FFmpegError", out.text))
      [] out.status = "success" -> Return(Ok(out))
      [] OTHER -> Continue("fallback")

after_primary_drops_diagnostic(out) ==
    CASE out.status = "spawn_error" -> Return(Err("FFmpegError", out.text))
      [] out.status = "success" -> Return(Ok(out))
      [] out.status = "failure" /\ is_audio_error(out.text) -> Continue("fallback")
      [] OTHER -> Return(Err("FFmpegError", FFmpegFailedPrefix))

after_primary_retries_spawn_error(out) ==
    CASE out.status = "success" -> Return(Ok(out))
      [] out.status = "spawn_error" -> Continue("fallback")
      [] out.status = "failure" /\ is_audio_error(out.text) -> Continue("fallback")
      [] OTHER -> Return(Err("FFmpegError", FFmpegFailedPrefix \o out.text))

after_primary(out) ==
    CASE out.status = "spawn_error" -> Return(Err("FFmpegError", out.text))
      [] out.status = "success" -> Return(Ok(out))
      [] out.status = "failure" /\ is_audio_error(out.text) -> Continue("fallback")
      [] OTHER -> Return(Err("FFmpegError", FFmpegFailedPrefix \o out.text))

\* what execute() does with the fallback invocation's outcome
after_fallback_retries_again(out) ==
    CASE out.status = "spawn_error" -> Return(Err("FFmpegError", out.text))
      [] out.status = "failure" /\ is_audio_error(out.text) -> Continue("fallback")
      [] out.status = "failure" ->
           Return(Err("FFmpegError", FallbackFailedPrefix \o out.text))
      [] OTHER -> Return(Ok(out))

after_fallback_reports_primary(out) ==
    CASE out.status = "spawn_error" -> Return(Err("FFmpegError", out.text))
      [] out.status = "failure" ->
           Return(Err("FFmpegError", FFmpegFailedPrefix \o primary_output.text))
      [] OTHER -> Return(Ok(out))

after_fallback(out) ==
    CASE out.status = "spawn_error" -> Return(Err("FFmpegError", out.text))
      [] out.status = "failure" ->
           Return(Err("FFmpegError", FallbackFailedPrefix \o out.text))
      [] OTHER -> Return(Ok(out))

\* execute(), first step: the version probe
check_ffmpeg_installed ==
    /\ pc = "idle"
    /\ \E started \in BOOLEAN :
          /\ spawned' = Append(spawned, Spawn("probe", <<"-version">>, started))
          /\ pc' = after_probe(started).pc
          /\ result' = after_probe(started).result
    /\ UNCHANGED <<cmd, primary_output, fallback_output,
                   args, fallback_args, command_string, parserVars, timeVars, clipVars, taskVars>>

\* execute(), second step: the primary attempt and the decision on its outcome
execute_primary ==
    /\ pc = "primary"
    /\ \E out \in SpawnOutcomes(StderrTexts) :
          /\ spawned' = Append(spawned, Spawn("primary", build_command(cmd),
                                              out.status # "spawn_error"))
          /\ primary_output' = out
          /\ pc' = after_primary(out).pc
          /\ result' = after_primary(out).result
    /\ UNCHANGED <<cmd, fallback_output, args, fallback_args, command_string,
                   parserVars, timeVars, clipVars, taskVars>>

\* execute(), third step: the fallback attempt; its outcome ends execute()
execute_fallback ==
    /\ pc = "fallback"
    /\ \E out \in SpawnOutcomes(FallbackStderrTexts) :
          /\ spawned' = Append(spawned, Spawn("fallback", build_fallback_command(cmd),
                                              out.status # "spawn_error"))
          /\ fallback_output' = out
          /\ pc' = after_fallback(out).pc
          /\ result' = after_fallback(out).result
    /\ UNCHANGED <<cmd, primary_output, args, fallback_args, command_string,
                   parserVars, timeVars, clipVars, taskVars>>

\* the three pure builders, callable at any time on the immutable value
BuildCommand ==
    /\ args' = build_command(cmd)
    /\ UNCHANGED <<cmd, pc, spawned, primary_output, fallback_output, result,
                   fallback_args, command_string, parserVars, timeVars, clipVars, taskVars>>

BuildFallbackCommand ==
    /\ fallback_args' = build_fallback_command(cmd)
    /\ UNCHANGED <<cmd, pc, spawned, primary_output, fallback_output, result,
                   args, command_string, parserVars, timeVars, clipVars, taskVars>>

GetCommandString ==
    /\ command_string' = get_command_string(cmd)
    /\ UNCHANGED <<cmd, pc, spawned, primary_output, fallback_output, result,
                   args, fallback_args, parserVars, timeVars, clipVars, taskVars>>

-----------------------------------------------------------------------------
(* Specification of the command builder and its execution                  *)

InputPaths == {"input.mp4", "my video (2023) - final.mp4"}
OutputPaths == {"output.mp4"}
\* (start_time, duration) pairs: whole, fractional, zero, negative
Timings == { <<Whole(10), Whole(30)>>, <<Fin(55, 1), Fin(2575, 2)>>,
             <<Whole(0), Whole(-10)>> }

Commands ==
    { with_audio_options(i, o, t[1], t[2], c, q) :
        i \in InputPaths, o \in OutputPaths, t \in Timings,
        c \in AudioCodec, q \in BOOLEAN }
    \cup { new(i, o, t[1], t[2]) : i \in InputPaths, o \in OutputPaths, t \in Timings }

NotParsed == [ok |-> TRUE, v |-> Whole(0), text |-> <<>>, path |-> "none"]

\* the command values execute() is run on: every policy and flag
ExecCommands ==
    { c \in Commands : c.input = "input.mp4" /\ c.start_time = Whole(10) }

\* Result<f64> of validate_time_range: the duration, or InvalidTimeRange
\* carrying the two values it was given
NotValidated == [tag |-> "none"]
Duration(v) == [tag |-> "Ok", v |-> v]
InvalidTimeRange(start, end) == [tag |-> "Err", start |-> start, end |-> end]

\* no formatter and no range validation called yet
TimeIdle ==
    /\ seconds = Whole(0)
    /\ formatted = <<>>
    /\ readable = <<>>
    /\ start_sec = Whole(0)
    /\ end_sec = Whole(0)
    /\ validated = NotValidated

NoRequest == [input_file |-> [dir |-> <<>>, stem |-> "", ext |-> ""],
              start_time |-> <<>>, end_time |-> <<>>, output_dir |-> <<>>]
NotReturned == [tag |-> "none"]
NoFiles == [files |-> {}, dirs |-> {}, log |-> <<>>]

\* no clip request handed to a VideoClipper
ClipIdle ==
    /\ request = NoRequest
    /\ clip_pc = "none"
    /\ output_path = ""
    /\ clip_result = NotReturned
    /\ fs = NoFiles

\* no concurrent invocations, no output file written
TasksIdle ==
    /\ tasks = <<>>
    /\ disk = <<>>

InitOn(commands, expressions) ==
    /\ TimeIdle
    /\ ClipIdle
    /\ TasksIdle
    /\ cmd \in commands
    /\ pc = "idle"
    /\ spawned = <<>>
    /\ primary_output = NoOutput
    /\ fallback_output = NoOutput
    /\ result = Pending
    /\ args = <<>>
    /\ fallback_args = <<>>
    /\ command_string = ""
    /\ expression \in expressions
    /\ parsed = NotParsed

Init == InitOn(ExecCommands, {<<>>})

\* one run of execute() on a command value
Next ==
    \/ check_ffmpeg_installed
    \/ execute_primary
    \/ execute_fallback

Spec == Init /\ [][Next]_vars

\* the pure builders applied to a command value
BuilderNext ==
    \/ BuildCommand
    \/ BuildFallbackCommand
    \/ GetCommandString

BuilderInit == InitOn(Commands, {<<>>})

BuilderSpec == BuilderInit /\ [][BuilderNext]_vars

-----------------------------------------------------------------------------
(* f64 arithmetic and str::parse::<f64>                                    *)

Max(a, b) == IF a > b THEN a ELSE b

\* a + b
Add(a, b) ==
    CASE a.k = "nan" \/ b.k = "nan" -> NaN
      [] a.k = "inf" /\ b.k = "inf" -> IF a.m = b.m THEN a ELSE NaN
      [] a.k = "inf" -> a
      [] b.k = "inf" -> b
      [] OTHER ->
           LET e == Max(a.e, b.e)
           IN  Fin(a.m * Pow10(e - a.e) + b.m * Pow10(e - b.e), e)

\* a * c for a positive whole constant c
Times(a, c) == IF a.k = "fin" THEN Fin(a.m * c, a.e) ELSE a

\* -a
Neg(a) == IF a.k = "nan" THEN NaN ELSE [a EXCEPT !.m = -a.m]

\* a - b
Sub(a, b) == Add(a, Neg(b))

\* a <= b: false when either is NaN
Leq(a, b) ==
    CASE a.k = "nan" \/ b.k = "nan" -> FALSE
      [] a.k = "inf" -> a.m < 0 \/ (b.k = "inf" /\ b.m > 0)
      [] b.k = "inf" -> b.m > 0
      [] OTHER ->
           LET e == Max(a.e, b.e)
           IN  a.m * Pow10(e - a.e) <= b.m * Pow10(e - b.e)

IsDigit(ch) == ch \in {"0", "1", "2", "3", "4", "5", "6", "7", "8", "9"}

RECURSIVE DigitsValue(_)
DigitsValue(digits) ==
    IF digits = <<>> THEN 0
    ELSE 10 * DigitsValue(SubSeq(digits, 1, Len(digits) - 1))
         + (IndexIn(DigitStr, digits[Len(digits)]) - 1)

AllDigits(text) == \A i \in 1..Len(text) : IsDigit(text[i])

FirstIndex(text, chars) ==
    IF \E i \in 1..Len(text) : text[i] \in chars
    THEN CHOOSE i \in 1..Len(text) :
            /\ text[i] \in chars
            /\ \A j \in 1..(i - 1) : text[j] \notin chars
    ELSE 0

NotANumber == [ok |-> FALSE, v |-> NaN]
Number(v) == [ok |-> TRUE, v |-> v]

\* Number ::= ( Digit+ | Digit+ '.' Digit* | Digit* '.' Digit+ ) Exp?
\* Exp ::= 'e' Sign? Digit+
ParseDecimal(text, negative) ==
    LET x == FirstIndex(text, {"e", "E"})
        mantissa == IF x = 0 THEN text ELSE SubSeq(text, 1, x - 1)
        exptext == IF x = 0 THEN <<>> ELSE SubSeq(text, x + 1, Len(text))
        expneg == exptext # <<>> /\ exptext[1] = "-"
        expdigits == IF exptext # <<>> /\ exptext[1] \in {"+", "-"}
                     THEN Tail(exptext) ELSE exptext
        dot == FirstIndex(mantissa, {"."})
        whole == IF dot = 0 THEN mantissa ELSE SubSeq(mantissa, 1, dot - 1)
        frac == IF dot = 0 THEN <<>> ELSE SubSeq(mantissa, dot + 1, Len(mantissa))
        exp == IF x = 0 THEN 0
               ELSE IF expneg THEN -DigitsValue(expdigits) ELSE DigitsValue(expdigits)
        digits == DigitsValue(whole \o frac)
        m == IF negative THEN -digits ELSE digits
        shift == exp - Len(frac)
    IN  IF /\ AllDigits(whole)
           /\ AllDigits(frac)
           /\ Len(whole) + Len(frac) > 0
           /\ (x # 0 => (expdigits # <<>> /\ AllDigits(expdigits)))
        THEN Number(IF shift >= 0 THEN Fin(m * Pow10(shift), 0) ELSE Fin(m, -shift))
        ELSE NotANumber

\* <f64 as FromStr>::from_str: Sign? ( 'inf' | 'infinity' | 'nan' | Number ),
\* the words matched without regard to case; no whitespace is skipped
ParseF64(text) ==
    LET signed == text # <<>> /\ text[1] \in {"+", "-"}
        negative == text # <<>> /\ text[1] = "-"
        body == IF signed THEN Tail(text) ELSE text
        word == to_lowercase(body)
    IN  CASE word \in { <<"i","n","f">>, <<"i","n","f","i","n","i","t","y">> } ->
                Number(IF negative THEN NegInf ELSE Inf)
          [] word = <<"n","a","n">> -> Number(NaN)
          [] OTHER -> ParseDecimal(body, negative)

-----------------------------------------------------------------------------
(* TimeParser                                                              *)

Whitespace == {" ", "\t", "\n", "\r"}

RECURSIVE trim_start(_)
trim_start(text) ==
    IF text # <<>> /\ text[1] \in Whitespace THEN trim_start(Tail(text)) ELSE text

RECURSIVE trim_end(_)
trim_end(text) ==
    IF text # <<>> /\ text[Len(text)] \in Whitespace
    THEN trim_end(SubSeq(text, 1, Len(text) - 1))
    ELSE text

trim(text) == trim_end(trim_start(text))

\* str::split(':'): the pieces between the separators, empty pieces included
RECURSIVE split(_, _)
split(text, sep) ==
    LET i == FirstIndex(text, {sep})
    IN  IF i = 0 THEN <<text>>
        ELSE <<SubSeq(text, 1, i - 1)>> \o split(SubSeq(text, i + 1, Len(text)), sep)

has(text, ch) == \E i \in 1..Len(text) : text[i] = ch
ends_with(text, ch) == text # <<>> /\ text[Len(text)] = ch
NumericChars(text) == \A i \in 1..Len(text) : IsDigit(text[i]) \/ text[i] = "."

\* Result<f64>: the value, or InvalidTimeFormat carrying a text; path names the
\* branch of parse_to_seconds that produced it
Parsed(v, path) == [ok |-> TRUE, v |-> v, text |-> <<>>, path |-> path]
InvalidTimeFormat_without_text(text, path) ==
    [ok |-> FALSE, v |-> Whole(0), text |-> <<>>, path |-> path]

InvalidTimeFormat(text, path) ==
    [ok |-> FALSE, v |-> Whole(0), text |-> text, path |-> path]

\* one step of the scanner loop over time_str[i..]
RECURSIVE scan(_, _, _, _)
scan(time_str, i, total_seconds, current_number) ==
    IF i > Len(time_str)
    THEN IF current_number # <<>>
         THEN IF ParseF64(current_number).ok
              THEN Parsed(Add(total_seconds, ParseF64(current_number).v), "composite")
              ELSE InvalidTimeFormat(time_str, "composite")
         ELSE Parsed(total_seconds, "composite")
    ELSE LET ch == time_str[i] IN
         IF IsDigit(ch) \/ ch = "."
         THEN scan(time_str, i + 1, total_seconds, Append(current_number, ch))
         ELSE IF ch \in {"h", "m", "s"}
         THEN IF ParseF64(current_number).ok
              THEN scan(time_str, i + 1,
                        Add(total_seconds,
                            Times(ParseF64(current_number).v,
                                  CASE ch = "h" -> 3600 [] ch = "m" -> 60 [] OTHER -> 1)),
                        <<>>)
              ELSE InvalidTimeFormat(time_str, "composite")
         ELSE IF ch \notin Whitespace
         THEN InvalidTimeFormat(time_str, "composite")
         ELSE scan(time_str, i + 1, total_seconds, current_number)

\* the text up to and including its last unit letter
UpToLastUnit(time_str) ==
    SubSeq(time_str, 1,
           Max(0, CHOOSE i \in 0..Len(time_str) :
                     /\ i > 0 => time_str[i] \in {"h", "m", "s"}
                     /\ \A j \in (i + 1)..Len(time_str) :
                           time_str[j] \notin {"h", "m", "s"}))

parse_complex_format_drops_trailing_number(time_str) ==
    scan(UpToLastUnit(time_str), 1, Whole(0), <<>>)

ScannerChar(ch) == IsDigit(ch) \/ ch = "." \/ ch \in {"h", "m", "s"} \/ ch \in Whitespace

parse_complex_format_skips_other_characters(time_str) ==
    scan(SelectSeq(time_str, ScannerChar), 1, Whole(0), <<>>)

parse_complex_format(time_str) == scan(time_str, 1, Whole(0), <<>>)

\* the branch for an expression that contains ':'
parse_colon_format_empty_part_is_zero(time_str) ==
    LET parts == split(time_str, ":")
        n == [i \in 1..Len(parts) |->
                 IF parts[i] = <<>> THEN Number(Whole(0)) ELSE ParseF64(parts[i])]
    IN  CASE Len(parts) = 2 /\ n[1].ok /\ n[2].ok ->
                Parsed(Add(Times(n[1].v, 60), n[2].v), "colon")
          [] Len(parts) = 3 /\ n[1].ok /\ n[2].ok /\ n[3].ok ->
                Parsed(Add(Add(Times(n[1].v, 3600), Times(n[2].v, 60)), n[3].v), "colon")
          [] OTHER -> InvalidTimeFormat(time_str, "colon")

parse_colon_format(time_str) ==
    LET parts == split(time_str, ":")
        n == [i \in 1..Len(parts) |-> ParseF64(parts[i])]
    IN  CASE Len(parts) = 2 ->
                IF n[1].ok /\ n[2].ok
                THEN Parsed(Add(Times(n[1].v, 60), n[2].v), "colon")
                ELSE InvalidTimeFormat(time_str, "colon")
          [] Len(parts) = 3 ->
                IF n[1].ok /\ n[2].ok /\ n[3].ok
                THEN Parsed(Add(Add(Times(n[1].v, 3600), Times(n[2].v, 60)), n[3].v),
                            "colon")
                ELSE InvalidTimeFormat(time_str, "colon")
          [] OTHER -> InvalidTimeFormat(time_str, "colon")

parse_unit_format_bare_unit_is_zero(time_str) ==
    LET num_str == SubSeq(time_str, 1, Len(time_str) - 1)
        factor == CASE ends_with(time_str, "s") -> 1
                    [] ends_with(time_str, "m") -> 60
                    [] ends_with(time_str, "h") -> 3600
                    [] OTHER -> 0
    IN  IF factor # 0 /\ num_str = <<>> THEN Parsed(Whole(0), "single_unit")
        ELSE IF factor # 0 /\ NumericChars(num_str) /\ ParseF64(num_str).ok
        THEN Parsed(Times(ParseF64(num_str).v, factor), "single_unit")
        ELSE parse_complex_format(time_str)

\* the branch for an expression without ':' that contains h, m or s
parse_unit_format(time_str) ==
    LET unit_count == (IF has(time_str, "h") THEN 1 ELSE 0)
                      + (IF has(time_str, "m") THEN 1 ELSE 0)
                      + (IF has(time_str, "s") THEN 1 ELSE 0)
        num_str == SubSeq(time_str, 1, Len(time_str) - 1)
        factor == CASE ends_with(time_str, "s") -> 1
                    [] ends_with(time_str, "m") -> 60
                    [] ends_with(time_str, "h") -> 3600
                    [] OTHER -> 0
    IN  IF unit_count > 1 THEN parse_complex_format(time_str)
        ELSE IF factor # 0 /\ NumericChars(num_str)
        THEN IF ParseF64(num_str).ok
             THEN Parsed(Times(ParseF64(num_str).v, factor), "single_unit")
             ELSE InvalidTimeFormat(time_str, "single_unit")
        ELSE parse_complex_format(time_str)

parse_trimmed(time_str) ==
    IF NumericChars(time_str)
    THEN IF ParseF64(time_str).ok
         THEN Parsed(ParseF64(time_str).v, "plain")
         ELSE InvalidTimeFormat(time_str, "plain")
    ELSE IF has(time_str, ":") THEN parse_colon_format(time_str)
    ELSE IF has(time_str, "m") \/ has(time_str, "h") \/ has(time_str, "s")
    THEN parse_unit_format(time_str)
    ELSE IF ParseF64(time_str).ok
         THEN Parsed(ParseF64(time_str).v, "number")
         ELSE InvalidTimeFormat(time_str, "number")

parse_to_seconds_untrimmed(text) ==
    IF text = <<>> THEN Parsed(Whole(0), "empty") ELSE parse_trimmed(text)

parse_to_seconds(text) ==
    IF text = <<>> THEN Parsed(Whole(0), "empty")
    ELSE IF trim(text) = <<>> THEN Parsed(Whole(0), "empty")
    ELSE parse_trimmed(trim(text))

-----------------------------------------------------------------------------
(* TimeParser: formatters and range validation                             *)

\* a finite whole f64 of at least 10^14, m * 10^x: every conversion of its
\* minutes or hours to u32 saturates
Big(m, x) == [k |-> "big", m |-> m, e |-> x]

RECURSIVE Pow10Mod(_, _)
Pow10Mod(x, d) == IF x = 0 THEN 1 % d ELSE (10 * Pow10Mod(x - 1, d)) % d

\* a % d for a positive whole constant d: the remainder has the sign of a
Rem(a, d) ==
    CASE a.k = "nan" \/ a.k = "inf" -> NaN
      [] a.k = "big" -> Whole(((a.m % d) * Pow10Mod(a.e, d)) % d)
      [] OTHER ->
           LET r == Abs(a.m) % (d * Pow10(a.e))
           IN  Fin(IF a.m < 0 THEN -r ELSE r, a.e)

\* a u32: a number below 2^31, or u32::MAX
U32(n) == [max |-> FALSE, n |-> n]
U32Max == [max |-> TRUE, n |-> 0]

\* (a / d) as u32 for a positive whole constant d: the quotient truncated
\* toward zero; NaN gives 0, what lies outside the u32 range saturates
QuotientAsU32(a, d) ==
    CASE a.k = "nan" -> U32(0)
      [] a.k = "inf" -> IF a.m > 0 THEN U32Max ELSE U32(0)
      [] a.k = "big" -> U32Max
      [] OTHER -> IF a.m < 0 THEN U32(0) ELSE U32(a.m \div (d * Pow10(a.e)))

AsU32(a) == QuotientAsU32(a, 1)

RECURSIVE NatToChars(_)
NatToChars(n) ==
    IF n < 10 THEN <<DigitStr[n + 1]>>
    ELSE Append(NatToChars(n \div 10), DigitStr[(n % 10) + 1])

\* format!("{:02}", u): the decimal digits, a 0 put before a single one
Pad2(u) ==
    IF u.max THEN <<"4","2","9","4","9","6","7","2","9","5">>
    ELSE IF u.n < 10 THEN <<"0">> \o NatToChars(u.n)
    ELSE NatToChars(u.n)

format_time(s) ==
    LET mins == QuotientAsU32(s, 60)
        secs == AsU32(Rem(s, 60))
    IN  Pad2(mins) \o <<"-">> \o Pad2(secs)

format_time_readable_total_minutes(s) ==
    LET hours == QuotientAsU32(s, 3600)
        mins == QuotientAsU32(s, 60)
        secs == AsU32(Rem(s, 60))
    IN  IF hours.max \/ hours.n > 0
        THEN Pad2(hours) \o <<":">> \o Pad2(mins) \o <<":">> \o Pad2(secs)
        ELSE Pad2(mins) \o <<":">> \o Pad2(secs)

format_time_readable(s) ==
    LET hours == QuotientAsU32(s, 3600)
        mins == QuotientAsU32(Rem(s, 3600), 60)
        secs == AsU32(Rem(s, 60))
    IN  IF hours.max \/ hours.n > 0
        THEN Pad2(hours) \o <<":">> \o Pad2(mins) \o <<":">> \o Pad2(secs)
        ELSE Pad2(mins) \o <<":">> \o Pad2(secs)

validate_time_range(start_seconds, end_seconds) ==
    IF Leq(end_seconds, start_seconds)
    THEN InvalidTimeRange(start_seconds, end_seconds)
    ELSE Duration(Sub(end_seconds, start_seconds))

\* TimeParser::format_time(seconds)
FormatTime ==
    /\ formatted = <<>>
    /\ formatted' = format_time(seconds)
    /\ UNCHANGED <<ffmpegVars, parserVars, clipVars, taskVars,
                   seconds, readable, start_sec, end_sec, validated>>

\* TimeParser::format_time_readable(seconds)
FormatTimeReadable ==
    /\ readable = <<>>
    /\ readable' = format_time_readable(seconds)
    /\ UNCHANGED <<ffmpegVars, parserVars, clipVars, taskVars,
                   seconds, formatted, start_sec, end_sec, validated>>

\* TimeParser::validate_time_range(start_sec, end_sec)
ValidateTimeRange ==
    /\ validated = NotValidated
    /\ validated' = validate_time_range(start_sec, end_sec)
    /\ UNCHANGED <<ffmpegVars, parserVars, clipVars, taskVars,
                   seconds, formatted, readable, start_sec, end_sec>>

-----------------------------------------------------------------------------
(* Specifications of the formatters and of range validation                *)

MaxHours == 2

\* whole and fractional seconds around every minute and hour boundary, values
\* too large for a u32 of minutes or hours, and the values that are not
\* non-negative numbers
SecondsValues ==
    { Fin((h * 3600 + m * 60 + sec) * 10 + t, 1) :
        h \in 0..MaxHours \cup {99, 100}, m \in {0, 1, 59},
        sec \in {0, 1, 30, 59}, t \in {0, 5, 9} }
    \cup { Whole(6000), Whole(5999), Fin(6195, 2), Fin(73235, 1), Whole(5445) }
    \cup { Big(3, 14), Big(6, 14), Big(1, 15), Inf }
    \cup { Whole(-1), Fin(-5, 1), Whole(-90), NegInf, NaN }

\* the command value of the states in which no command is built or run
IdleCommand == new("input.mp4", "output.mp4", Whole(10), Whole(30))

FormatInit ==
    /\ cmd = IdleCommand
    /\ pc = "idle"
    /\ spawned = <<>>
    /\ primary_output = NoOutput
    /\ fallback_output = NoOutput
    /\ result = Pending
    /\ args = <<>>
    /\ fallback_args = <<>>
    /\ command_string = ""
    /\ expression = <<>>
    /\ parsed = NotParsed
    /\ ClipIdle
    /\ TasksIdle
    /\ seconds \in SecondsValues
    /\ formatted = <<>>
    /\ readable = <<>>
    /\ start_sec = Whole(0)
    /\ end_sec = Whole(0)
    /\ validated = NotValidated

FormatNext ==
    \/ FormatTime
    \/ FormatTimeReadable

FormatSpec == FormatInit /\ [][FormatNext]_vars

\* the two values handed to validate_time_range
RangeValues ==
    { Whole(0), Whole(10), Whole(50), Whole(100), Fin(305, 1), Fin(1, 3),
      Whole(-10), Whole(-20), Inf, NegInf, NaN }

RangeInit ==
    /\ cmd = IdleCommand
    /\ pc = "idle"
    /\ spawned = <<>>
    /\ primary_output = NoOutput
    /\ fallback_output = NoOutput
    /\ result = Pending
    /\ args = <<>>
    /\ fallback_args = <<>>
    /\ command_string = ""
    /\ expression = <<>>
    /\ parsed = NotParsed
    /\ ClipIdle
    /\ TasksIdle
    /\ seconds = Whole(0)
    /\ formatted = <<>>
    /\ readable = <<>>
    /\ start_sec \in RangeValues
    /\ end_sec \in RangeValues
    /\ validated = NotValidated

RangeNext == ValidateTimeRange

RangeSpec == RangeInit /\ [][RangeNext]_vars

-----------------------------------------------------------------------------
(* Specification of the time expression parser                             *)

MaxExprLen == 4
MaxParts == 4

ExprAlphabet == {"0", "1", "5", ".", ":", "h", "m", "s", " ", "x"}

\* every expression over the alphabet of at most MaxExprLen characters
CharExpressions ==
    UNION { [1..n -> ExprAlphabet] : n \in 0..MaxExprLen }

\* the fields colon expressions are assembled from
PartTexts == { <<>>, <<"0">>, <<"2">>, <<"3","0">>, <<"0","5",".","5">>,
               <<"a","b","c">>, <<"1","m">>, <<" ","7">>, <<".">> }

RECURSIVE JoinParts(_)
JoinParts(parts) ==
    IF Len(parts) = 1 THEN parts[1]
    ELSE parts[1] \o <<":">> \o JoinParts(Tail(parts))

\* every expression of at most MaxParts fields separated by ':'
ColonExpressions ==
    UNION { { JoinParts(parts) : parts \in [1..n -> PartTexts] } : n \in 2..MaxParts }

\* expressions of the repository's tests and further signed, exponent and
\* special-value fields
ExampleExpressions == {
    <<>>,
    <<" "," "," ">>,
    <<"1","2","0">>,
    <<"4","5",".","5">>,
    <<"2",":","3","0">>,
    <<"1","0",":","4","5">>,
    <<"1",":","0","5",".","5">>,
    <<"1",":","3","0",":","4","5">>,
    <<"1","2",":","3","4",":","5","6",".","5">>,
    <<"1",".","5",":","3","0">>,
    <<":","3","0">>,
    <<"3","0",":">>,
    <<"1",":","2",":","3",":","4">>,
    <<"a","b","c",":","3","0">>,
    <<"3","0",":","a","b","c">>,
    <<"1","m",":","3","0","s">>,
    <<"1","h",":","3","0">>,
    <<"i","n","v","a","l","i","d">>,
    <<"3","0","s">>,
    <<"5","m">>,
    <<"1",".","5","h">>,
    <<"1","h","3","0","m","4","5","s">>,
    <<"1","h"," ","3","0","m"," ","4","5","s">>,
    <<"3","0","m","4","5">>,
    <<"h","3","0","m">>,
    <<"1","h","3","0","x">>,
    <<"a","b","c","3","0","m">>,
    <<" ","2",":","3","0"," ">>,
    <<"1"," ",":","3","0">>,
    <<"-","1",":","3","0">>,
    <<"+","1",":","3","0">>,
    <<"1","e","1",":","5">>,
    <<"i","n","f",":","5">>,
    <<"n","a","n",":","5">>,
    <<"1",":","2",":">>,
    <<":",":">>,
    <<"1",".",".","5",":","3">>,
    <<"5","m","5","m">>,
    <<"3","0","m","h">>,
    <<"3","0"," ","4","5","m">>,
    <<"1","h"," ","3","0"," ","4","5","m">>,
    <<"1","h"," ","3","0"," ","4","5">>,
    <<"i","n","f">>,
    <<"n","a","n">>,
    <<"I","n","f","i","n","i","t","y">>,
    <<"+","5">>,
    <<"1","e","5">>,
    <<"1","e","f">> }

MaxTokens == 3

UnitLetters == {"h", "m", "s"}

\* the numbers and the <number><unit> tokens composite expressions are made of
TokenNumbers == { <<"3","0">>, <<"1",".","5">> }
TokenTexts == { n \o <<u>> : n \in TokenNumbers, u \in UnitLetters }
Gaps == { <<>>, <<" ">> }

RECURSIVE JoinTokens(_, _)
JoinTokens(tokens, gap) ==
    IF Len(tokens) = 1 THEN tokens[1]
    ELSE tokens[1] \o gap \o JoinTokens(Tail(tokens), gap)

\* at most MaxTokens tokens in every order, a unit possibly repeated, with or
\* without a blank between them, with or without a trailing number
CompositeExpressions ==
    UNION { { JoinTokens(tokens, gap) \o trailing :
                tokens \in [1..n -> TokenTexts], gap \in Gaps,
                trailing \in {<<>>} \cup { <<" ">> \o t : t \in TokenNumbers }
                                   \cup TokenNumbers } :
            n \in 1..MaxTokens }

TimeExpressions ==
    CharExpressions \cup ColonExpressions \cup ExampleExpressions
        \cup CompositeExpressions

ParserInit ==
    InitOn({new("input.mp4", "output.mp4", Whole(10), Whole(30))}, TimeExpressions)

\* TimeParser::parse_to_seconds(&expression)
ParseToSeconds ==
    /\ parsed.path = "none"
    /\ parsed' = parse_to_seconds(expression)
    /\ UNCHANGED <<ffmpegVars, expression, timeVars, clipVars, taskVars>>

ParserNext == ParseToSeconds

ParserSpec == ParserInit /\ [][ParserNext]_vars

-----------------------------------------------------------------------------
(* VideoClipper                                                            *)

\* A path is a directory, given by its components, and for a file a stem and
\* an extension.  An Option is a sequence of no or one element.

\* Path::display
RECURSIVE PathString(_)
PathString(path) ==
    IF path.dir = <<>> THEN path.stem \o "." \o path.ext
    ELSE path.dir[1] \o "/" \o PathString([path EXCEPT !.dir = Tail(@)])

RECURSIVE CharsToString(_)
CharsToString(chars) ==
    IF chars = <<>> THEN "" ELSE chars[1] \o CharsToString(Tail(chars))

\* VideoClipper::new().output_dir
ClipperOutputDir == <<"downloads">>

WorkspaceDir == <<"", "workspaces", "agentics-foundation-video-clip-rs">>

NoCommand == [audio_codec |-> "none"]

ClipErr(kind, detail) == [tag |-> "Err", kind |-> kind, detail |-> detail]

\* what the three fallible calls both entry points start with come to, from
\* what parse_to_seconds returned for the start and for the end expression;
\* '?' returns the first error
parse_times_end_first(s, e) ==
    LET d == validate_time_range(s.v, e.v)
    IN  CASE ~e.ok -> ClipErr("InvalidTimeFormat", e.text)
          [] ~s.ok -> ClipErr("InvalidTimeFormat", s.text)
          [] d.tag = "Err" -> ClipErr("InvalidTimeRange", <<d.start, d.end>>)
          [] OTHER -> [tag |-> "Ok", start |-> s.v, end |-> e.v, duration |-> d.v]

parse_times(s, e) ==
    LET d == validate_time_range(s.v, e.v)
    IN  CASE ~s.ok -> ClipErr("InvalidTimeFormat", s.text)
          [] ~e.ok -> ClipErr("InvalidTimeFormat", e.text)
          [] d.tag = "Err" -> ClipErr("InvalidTimeRange", <<d.start, d.end>>)
          [] OTHER -> [tag |-> "Ok", start |-> s.v, end |-> e.v, duration |-> d.v]

validate_input_file_given_path_only(path, files) ==
    [ok |-> path \in files,
     probes |-> <<[op |-> "exists", path |-> path, ok |-> path \in files]>>]

\* the exists() calls made, in order, and whether one of them found a file
validate_input_file(path, files) ==
    LET tried == << path,
                    [path EXCEPT !.dir = WorkspaceDir],
                    [path EXCEPT !.dir = ClipperOutputDir],
                    path >>
        hit == IF \E i \in 1..4 : tried[i] \in files
               THEN CHOOSE i \in 1..4 :
                       /\ tried[i] \in files
                       /\ \A j \in 1..(i - 1) : tried[j] \notin files
               ELSE 0
    IN  [ok |-> hit # 0,
         probes |-> [i \in 1..(IF hit = 0 THEN 4 ELSE hit) |->
                        [op |-> "exists", path |-> tried[i], ok |-> i = hit]]]

generate_output_filename(input_file, start, end) ==
    [dir |-> ClipperOutputDir,
     stem |-> input_file.stem \o "_clip_" \o CharsToString(format_time(start))
              \o "_to_" \o CharsToString(format_time(end)),
     ext |-> "mp4"]

\* clip_video, lines 90-92
clip_video_parse ==
    /\ clip_pc = "clip_video"
    /\ \E t \in { parse_times(s, e) :
                      s \in {parse_to_seconds(request.start_time)},
                      e \in {parse_to_seconds(request.end_time)} } :
           IF t.tag = "Err"
           THEN /\ clip_result' = t
                /\ clip_pc' = "returned"
                /\ UNCHANGED <<start_sec, end_sec, validated>>
           ELSE /\ start_sec' = t.start
                /\ end_sec' = t.end
                /\ validated' = Duration(t.duration)
                /\ clip_pc' = "validate_input_file"
                /\ UNCHANGED clip_result
    /\ UNCHANGED <<ffmpegVars, parserVars, taskVars, seconds, formatted, readable,
                   request, output_path, fs>>

\* clip_video, line 96
clip_video_validate_input ==
    /\ clip_pc = "validate_input_file"
    /\ LET found == validate_input_file(request.input_file, fs.files)
       IN  /\ fs' = [fs EXCEPT !.log = @ \o found.probes]
           /\ IF found.ok
              THEN clip_pc' = "output_path" /\ UNCHANGED clip_result
              ELSE /\ clip_pc' = "returned"
                   /\ clip_result' =
                         ClipErr("FileNotFound", PathString(request.input_file))
    /\ UNCHANGED <<ffmpegVars, parserVars, taskVars, timeVars, request, output_path>>

\* clip_video, lines 99-108: create_dir_all on the clipper's directory, then
\* on the request's if it names one; either call can fail
clip_video_output_path ==
    /\ clip_pc = "output_path"
    /\ \E ensured \in BOOLEAN, created \in BOOLEAN :
          LET generated == generate_output_filename(request.input_file,
                                                    start_sec, end_sec)
              first == [op |-> "create_dir_all", path |-> ClipperOutputDir,
                        ok |-> ensured]
              second == [op |-> "create_dir_all", path |-> request.output_dir[1],
                         ok |-> created]
          IN  CASE ~ensured ->
                     /\ fs' = [fs EXCEPT !.log = Append(@, first)]
                     /\ clip_result' = ClipErr("IoError", first.path)
                     /\ clip_pc' = "returned"
                     /\ UNCHANGED output_path
                [] ensured /\ request.output_dir = <<>> ->
                     /\ fs' = [fs EXCEPT !.log = Append(@, first),
                                         !.dirs = @ \cup {ClipperOutputDir}]
                     /\ output_path' = PathString(generated)
                     /\ clip_pc' = "ffmpeg"
                     /\ UNCHANGED clip_result
                [] ensured /\ request.output_dir # <<>> /\ ~created ->
                     /\ fs' = [fs EXCEPT !.log = @ \o <<first, second>>,
                                         !.dirs = @ \cup {ClipperOutputDir}]
                     /\ clip_result' = ClipErr("IoError", second.path)
                     /\ clip_pc' = "returned"
                     /\ UNCHANGED output_path
                [] OTHER ->
                     /\ fs' = [fs EXCEPT !.log = @ \o <<first, second>>,
                                         !.dirs = @ \cup {ClipperOutputDir,
                                                          request.output_dir[1]}]
                     /\ output_path' =
                           PathString([generated EXCEPT !.dir = request.output_dir[1]])
                     /\ clip_pc' = "ffmpeg"
                     /\ UNCHANGED clip_result
    /\ UNCHANGED <<ffmpegVars, parserVars, taskVars, timeVars, request>>

\* clip_video, lines 111-112; execute() starts next
clip_video_build ==
    /\ clip_pc = "ffmpeg"
    /\ LET ffmpeg == new(PathString(request.input_file), output_path,
                         start_sec, validated.v)
       IN  /\ cmd' = ffmpeg
           /\ command_string' = get_command_string(ffmpeg)
    /\ pc' = "idle"
    /\ clip_pc' = "execute"
    /\ UNCHANGED <<spawned, primary_output, fallback_output, result, args,
                   fallback_args, parserVars, taskVars, timeVars, request, output_path,
                   clip_result, fs>>

\* clip_video, lines 115-134: '?' on what execute() returned, the size of
\* the output file if its metadata can be read, the ClipResult
clip_video_return ==
    /\ clip_pc = "execute"
    /\ pc = "done"
    /\ clip_pc' = "returned"
    /\ IF result.tag = "Err"
       THEN /\ clip_result' = ClipErr(result.kind, result.msg)
            /\ UNCHANGED fs
       ELSE \E file_size_mb \in { <<>>, <<Fin(15, 1)>> } :
              /\ fs' = [fs EXCEPT !.log =
                            Append(@, [op |-> "metadata", path |-> output_path,
                                       ok |-> file_size_mb # <<>>])]
              /\ clip_result' =
                    [tag |-> "Ok",
                     input_file |-> PathString(request.input_file),
                     output_file |-> output_path,
                     start_seconds |-> start_sec,
                     end_seconds |-> end_sec,
                     duration |-> validated.v,
                     file_size_mb |-> file_size_mb,
                     command |-> command_string]
    /\ UNCHANGED <<ffmpegVars, parserVars, taskVars, timeVars, request, output_path>>

\* prepare_clip_command: no file is looked at, nothing is run
prepare_clip_command ==
    /\ clip_pc = "prepare_clip_command"
    /\ clip_pc' = "prepared"
    /\ \E t \in { parse_times(s, e) :
                      s \in {parse_to_seconds(request.start_time)},
                      e \in {parse_to_seconds(request.end_time)} } :
           IF t.tag = "Err"
           THEN /\ clip_result' = t
                /\ UNCHANGED <<cmd, command_string, start_sec, end_sec,
                               validated, output_path>>
           ELSE LET out == PathString(generate_output_filename(
                                          request.input_file, t.start, t.end))
                    ffmpeg == new(PathString(request.input_file), out,
                                  t.start, t.duration)
                IN  /\ start_sec' = t.start
                    /\ end_sec' = t.end
                    /\ validated' = Duration(t.duration)
                    /\ output_path' = out
                    /\ cmd' = ffmpeg
                    /\ command_string' = get_command_string(ffmpeg)
                    /\ clip_result' =
                          [tag |-> "Ok",
                           input_file |-> PathString(request.input_file),
                           output_file |-> out,
                           start_seconds |-> t.start,
                           end_seconds |-> t.end,
                           duration |-> t.duration,
                           file_size_mb |-> <<>>,
                           command |-> get_command_string(ffmpeg)]
    /\ UNCHANGED <<pc, spawned, primary_output, fallback_output, result, args,
                   fallback_args, parserVars, taskVars, seconds, formatted, readable,
                   request, fs>>

\* wasm::generate_ffmpeg_command, from what parse_to_seconds returned for the
\* two expressions; the JsValue of an error is that error's text
generate_ffmpeg_command(input_file, output_file, s, e) ==
    LET t == parse_times(s, e)
    IN  IF t.tag = "Err" THEN t
        ELSE [tag |-> "Ok",
              command |-> "ffmpeg -i " \o input_file
                          \o " -ss " \o F64ToString(t.start)
                          \o " -t " \o F64ToString(t.duration)
                          \o " -c copy -avoid_negative_ts make_zero -y "
                          \o output_file]

\* generate_ffmpeg_command(input_file, output_file, start_time, end_time)
GenerateFfmpegCommand ==
    /\ clip_pc = "generate_ffmpeg_command"
    /\ clip_pc' = "generated"
    /\ \E output_file \in OutputPaths :
          /\ output_path' = output_file
          /\ \E generated \in
                 { generate_ffmpeg_command(PathString(request.input_file),
                                           output_file, s, e) :
                     s \in {parse_to_seconds(request.start_time)},
                     e \in {parse_to_seconds(request.end_time)} } :
                clip_result' = generated
    /\ UNCHANGED <<ffmpegVars, parserVars, taskVars, timeVars, request, fs>>

-----------------------------------------------------------------------------
(* Specification of the clip orchestration                                 *)

InputFile == [dir |-> <<"videos">>, stem |-> "input", ext |-> "mp4"]

\* start and end expressions: the end-to-end example, expressions that do not
\* parse, ranges that are empty or reversed, and the special value NaN
StartTimes == { <<"1",":","3","0">>, <<"5","0">>, <<"a","b","c">>, <<"n","a","n">> }
EndTimes == { <<"3",":","0","0">>, <<"1",":","3","0">>, <<"1","0">>, <<"1","h","x">> }

ClipRequests ==
    [input_file : {InputFile}, start_time : StartTimes, end_time : EndTimes,
     output_dir : { <<>>, << <<"clips">> >> }]

\* the input file where the request says, in the clipper's directory only,
\* in the workspace directory only, or nowhere
FileSystems ==
    { [files |-> files, dirs |-> {}, log |-> <<>>] :
        files \in { {InputFile}, {[InputFile EXCEPT !.dir = ClipperOutputDir]},
                    {[InputFile EXCEPT !.dir = WorkspaceDir]}, {} } }

ClipInit ==
    /\ cmd = NoCommand
    /\ pc = "none"
    /\ spawned = <<>>
    /\ primary_output = NoOutput
    /\ fallback_output = NoOutput
    /\ result = Pending
    /\ args = <<>>
    /\ fallback_args = <<>>
    /\ command_string = ""
    /\ expression = <<>>
    /\ parsed = NotParsed
    /\ TimeIdle
    /\ TasksIdle
    /\ request \in ClipRequests
    /\ clip_pc \in {"clip_video", "prepare_clip_command", "generate_ffmpeg_command"}
    /\ output_path = ""
    /\ clip_result = NotReturned
    /\ fs \in FileSystems

ClipNext ==
    \/ clip_video_parse
    \/ clip_video_validate_input
    \/ clip_video_output_path
    \/ clip_video_build
    \/ check_ffmpeg_installed
    \/ execute_primary
    \/ execute_fallback
    \/ clip_video_return
    \/ prepare_clip_command
    \/ GenerateFfmpegCommand

ClipSpec == ClipInit /\ [][ClipNext]_vars

-----------------------------------------------------------------------------
(* Concurrent invocations of clip_video                                    *)

\* Two tasks call clip_video on one VideoClipper, each with its own request.
\* The input file exists and the directories can be created; the tool is
\* taken as one process that opens its output for writing (-y) when it
\* starts and has written it when it exits.

TaskIds == {1, 2}

\* clip_video, lines 90-112: the times, the output path, the command
task_clip_video_build(t) ==
    /\ tasks[t].at = "clip_video"
    /\ \E r \in { parse_times(s, e) :
                      s \in {parse_to_seconds(tasks[t].request.start_time)},
                      e \in {parse_to_seconds(tasks[t].request.end_time)} } :
           IF r.tag = "Err"
           THEN tasks' = [tasks EXCEPT ![t].at = "returned", ![t].outcome = r]
           ELSE LET out == PathString(generate_output_filename(
                                          tasks[t].request.input_file, r.start, r.end))
                IN  tasks' = [tasks EXCEPT
                                 ![t].at = "execute",
                                 ![t].output_path = out,
                                 ![t].ffmpeg =
                                     new(PathString(tasks[t].request.input_file),
                                         out, r.start, r.duration)]
    /\ UNCHANGED <<ffmpegVars, parserVars, timeVars, clipVars, disk>>

\* clip_video, line 115: the tool starts, or execute() fails; a file that
\* another running tool is writing may no longer hold one whole clip
task_ffmpeg_start(t) ==
    /\ tasks[t].at = "execute"
    /\ \E started \in BOOLEAN, whole \in BOOLEAN :
          IF ~started
          THEN /\ tasks' = [tasks EXCEPT
                               ![t].at = "returned",
                               ![t].outcome = ClipErr("FFmpegError", <<>>)]
               /\ UNCHANGED disk
          ELSE LET shared == \E u \in TaskIds \ {t} :
                                /\ tasks[u].at = "running"
                                /\ tasks[u].output_path = tasks[t].output_path
                   file == [clip |-> tasks[t].ffmpeg, intact |-> whole]
               IN  /\ shared \/ whole
                   /\ tasks' = [tasks EXCEPT ![t].at = "running"]
                   /\ disk' = [path \in DOMAIN disk \cup {tasks[t].output_path} |->
                                  IF path = tasks[t].output_path THEN file
                                  ELSE disk[path]]
    /\ UNCHANGED <<ffmpegVars, parserVars, timeVars, clipVars>>

\* clip_video, line 115: the tool exits with success
task_ffmpeg_exit(t) ==
    /\ tasks[t].at = "running"
    /\ tasks' = [tasks EXCEPT ![t].at = "exited"]
    /\ UNCHANGED <<ffmpegVars, parserVars, timeVars, clipVars, disk>>

\* clip_video, lines 118-134
task_clip_video_return(t) ==
    /\ tasks[t].at = "exited"
    /\ tasks' = [tasks EXCEPT
                    ![t].at = "returned",
                    ![t].outcome =
                        [tag |-> "Ok",
                         output_file |-> tasks[t].output_path,
                         start_seconds |-> tasks[t].ffmpeg.start_time,
                         duration |-> tasks[t].ffmpeg.duration,
                         command |-> get_command_string(tasks[t].ffmpeg)]]
    /\ UNCHANGED <<ffmpegVars, parserVars, timeVars, clipVars, disk>>

\* start expressions: two that differ only in the fraction of a second, one
\* that gives another file name, one that does not parse
TaskStartTimes ==
    { <<"1",":","3","0">>, <<"1",":","3","0",".","5">>, <<"5","0">>,
      <<"a","b","c">> }

TaskRequests ==
    [input_file : {InputFile}, start_time : TaskStartTimes,
     end_time : { <<"3",":","0","0">> }, output_dir : { <<>> }]

ConcurrentInit ==
    /\ cmd = IdleCommand
    /\ pc = "idle"
    /\ spawned = <<>>
    /\ primary_output = NoOutput
    /\ fallback_output = NoOutput
    /\ result = Pending
    /\ args = <<>>
    /\ fallback_args = <<>>
    /\ command_string = ""
    /\ expression = <<>>
    /\ parsed = NotParsed
    /\ TimeIdle
    /\ ClipIdle
    /\ tasks \in [TaskIds -> [request : TaskRequests, at : {"clip_video"},
                               output_path : {""}, ffmpeg : {NoCommand},
                               outcome : {NotReturned}]]
    /\ disk = <<>>

ConcurrentNext ==
    \E t \in TaskIds :
        \/ task_clip_video_build(t)
        \/ task_ffmpeg_start(t)
        \/ task_ffmpeg_exit(t)
        \/ task_clip_video_return(t)

ConcurrentSpec == ConcurrentInit /\ [][ConcurrentNext]_vars

-----------------------------------------------------------------------------
(* Properties of execute()                                                 *)

Kinds(log) == [i \in 1..Len(log) |-> log[i].kind]
Ran(kind) == \E i \in 1..Len(spawned) : spawned[i].kind = kind
Count(kind) == Cardinality({i \in 1..Len(spawned) : spawned[i].kind = kind})

PrimaryFailedAudio ==
    primary_output.status = "failure" /\ is_audio_error(primary_output.text)

\* C1: the fallback invocation is run if and only if the primary invocation
\* was spawned, exited unsuccessfully and its standard-error text is classified
\* audio-related by is_audio_error; a successful primary invocation is returned
\* as the result and no fallback is run.
C1_FallbackIffAudioFailure ==
    /\ Ran("fallback") => PrimaryFailedAudio
    /\ (pc = "done" /\ PrimaryFailedAudio) => Ran("fallback")
    /\ PrimaryFailedAudio => pc \in {"fallback", "done"}
    /\ primary_output.status = "success" =>
          /\ pc = "done"
          /\ result = Ok(primary_output)
          /\ ~Ran("fallback")

C1_Witness ==
    /\ pc = "done"
    /\ Ran("fallback")
    /\ primary_output.status = "failure"
    /\ primary_output.text # to_lowercase(primary_output.text)

AtMostTwoAttempts ==
    /\ Kinds(spawned) \in { <<>>, <<"probe">>, <<"probe", "primary">>,
                            <<"probe", "primary", "fallback">> }
    /\ Count("primary") + Count("fallback") <= 2
    /\ pc = "done" <=> result.tag \in {"Ok", "Err"}
    /\ pc # "done" =>
          ENABLED (check_ffmpeg_installed \/ execute_primary \/ execute_fallback)

\* C2 as stated: every run of execute() that has returned made exactly one
\* primary attempt and at most one fallback attempt, never a third attempt.
C2_ExactlyOnePrimary ==
    /\ AtMostTwoAttempts
    /\ pc = "done" => (Count("primary") = 1 /\ Count("fallback") <= 1)

\* C2: execute() ends in Ok or Err after at most two transcode invocations: one
\* primary attempt when the version probe could start the tool and none when it
\* could not, then at most one fallback attempt; the invocations are a prefix
\* of probe, primary, fallback, and until execute() has returned its next step
\* is enabled.
C2_AtMostTwoAttempts ==
    /\ AtMostTwoAttempts
    /\ pc = "done" =>
          /\ Count("primary") = (IF spawned[1].started THEN 1 ELSE 0)
          /\ Count("fallback") <= 1

C2_Witness ==
    /\ pc = "done"
    /\ Kinds(spawned) = <<"probe", "primary", "fallback">>
    /\ result.tag = "Err"

\* C3: a primary failure whose diagnostic is not audio-related is not retried
\* and is returned as FFmpegError with the primary diagnostic text embedded.
C3_NonAudioFailureSurfaced ==
    (primary_output.status = "failure" /\ ~is_audio_error(primary_output.text)) =>
        /\ pc = "done"
        /\ ~Ran("fallback")
        /\ result.tag = "Err"
        /\ result.kind = "FFmpegError"
        /\ contains(result.msg, primary_output.text)
        /\ Len(result.msg) > Len(primary_output.text)

C3_Witness ==
    /\ primary_output.status = "failure"
    /\ ~is_audio_error(primary_output.text)
    /\ Len(primary_output.text) > 0
    /\ result.tag = "Err"

\* C4: once the fallback invocation has run its outcome is final: success is
\* returned as Ok with the fallback's output, a failure as FFmpegError embedding
\* the fallback's own diagnostic text, and no further attempt follows.
C4_FallbackOutcomeFinal ==
    Ran("fallback") =>
        /\ pc = "done"
        /\ spawned[Len(spawned)].kind = "fallback"
        /\ Count("fallback") = 1
        /\ fallback_output.status = "success" => result = Ok(fallback_output)
        /\ fallback_output.status # "success" =>
              /\ result.tag = "Err"
              /\ result.kind = "FFmpegError"
              /\ contains(result.msg, fallback_output.text)
              /\ (fallback_output.text # primary_output.text /\
                  fallback_output.status = "failure")
                     => ~contains(result.msg, FFmpegFailedPrefix \o primary_output.text)

C4_Witness ==
    /\ Ran("fallback")
    /\ fallback_output.status = "failure"
    /\ Len(fallback_output.text) > 0
    /\ fallback_output.text # primary_output.text
    /\ result.tag = "Err"

C4_WitnessOk ==
    /\ Ran("fallback")
    /\ result = Ok(fallback_output)

\* C5: a version probe that cannot start the tool ends execute() with
\* FFmpegNotFound before any transcode invocation; FFmpegNotFound is never the
\* result once a transcode invocation has been attempted, and a failed
\* transcode is never reported as FFmpegNotFound.
C5_ToolAbsenceDistinct ==
    /\ (Ran("probe") /\ ~spawned[1].started) =>
          /\ pc = "done"
          /\ result = Err("FFmpegNotFound", <<>>)
          /\ Kinds(spawned) = <<"probe">>
    /\ (Ran("primary") \/ Ran("fallback")) => result.kind # "FFmpegNotFound"
    /\ result.kind = "FFmpegNotFound" => ~spawned[1].started

C5_Witness ==
    /\ Ran("probe")
    /\ ~spawned[1].started
    /\ result.kind = "FFmpegNotFound"

-----------------------------------------------------------------------------
(* Properties of the command builder                                       *)

\* the audio tokens of the primary arguments, per policy and flag
PolicyAudioTokens(codec, preserve) ==
    CASE codec \in {"Copy", "Auto"} -> <<"-c:a", "copy">>
      [] codec = "Aac" /\ ~preserve -> <<"-c:a", "aac">>
      [] codec = "Aac" /\ preserve -> <<"-c:a", "aac", "-b:a", "128k">>
      [] codec = "Mp3" /\ ~preserve -> <<"-c:a", "mp3">>
      [] codec = "Mp3" /\ preserve -> <<"-c:a", "mp3", "-b:a", "128k">>

\* the fixed token order around the audio tokens
TokenOrder(input, output, start, duration, audio) ==
    <<"-i", input, "-ss", start, "-t", duration,
      "-map", "0:v?", "-map", "0:a?", "-c:v", "copy">>
    \o audio
    \o <<"-avoid_negative_ts", "make_zero", "-async", "1", "-vsync", "2",
         "-y", output>>

RECURSIVE JoinWithSpaces(_)
JoinWithSpaces(tokens) ==
    IF Len(tokens) = 0 THEN ""
    ELSE IF Len(tokens) = 1 THEN tokens[1]
    ELSE tokens[1] \o " " \o JoinWithSpaces(Tail(tokens))

\* C6: build_command yields exactly -i <input> -ss <start> -t <duration>
\* -map 0:v? -map 0:a? -c:v copy <audio tokens> -avoid_negative_ts make_zero
\* -async 1 -vsync 2 -y <output>, with the audio tokens of the policy table;
\* the first token is -i and the last two are -y <output>.
C6_PrimaryTokenOrder ==
    args # <<>> =>
        /\ args = TokenOrder(cmd.input, cmd.output,
                             F64ToString(cmd.start_time), F64ToString(cmd.duration),
                             PolicyAudioTokens(cmd.audio_codec,
                                               cmd.preserve_audio_quality))
        /\ args[1] = "-i"
        /\ args[Len(args) - 1] = "-y"
        /\ args[Len(args)] = cmd.output

C6_Witness ==
    /\ args # <<>>
    /\ cmd.audio_codec = "Mp3"
    /\ cmd.preserve_audio_quality
    /\ Len(args) = 24

C6_WitnessAuto ==
    /\ args # <<>>
    /\ cmd.audio_codec = "Auto"
    /\ Len(args) = 22

\* C7: build_fallback_command yields the primary token order with the audio
\* tokens fixed to -c:a aac -b:a 128k, whatever the policy and the flag: two
\* commands that agree on input, output, start and duration have the same
\* fallback arguments.
C7_FallbackIgnoresPolicy ==
    fallback_args # <<>> =>
        /\ fallback_args = TokenOrder(cmd.input, cmd.output,
                                      F64ToString(cmd.start_time),
                                      F64ToString(cmd.duration),
                                      <<"-c:a", "aac", "-b:a", "128k">>)
        /\ \A codec \in AudioCodec, preserve \in BOOLEAN :
              build_fallback_command(
                  [cmd EXCEPT !.audio_codec = codec,
                              !.preserve_audio_quality = preserve]) = fallback_args

C7_Witness ==
    /\ fallback_args # <<>>
    /\ cmd.audio_codec = "Mp3"
    /\ ~cmd.preserve_audio_quality

\* C8: get_command_string is the tool name followed by the tokens of
\* build_command in the same order, joined by single spaces.
C8_StringMatchesArguments ==
    (command_string # "" /\ args # <<>>) =>
        command_string = JoinWithSpaces(<<"ffmpeg">> \o args)

C8_Witness ==
    /\ command_string # ""
    /\ args # <<>>
    /\ cmd.audio_codec = "Aac"
    /\ cmd.preserve_audio_quality
    /\ cmd.input = "my video (2023) - final.mp4"

-----------------------------------------------------------------------------
(* Properties of is_audio_error                                            *)

RECURSIVE Phrase(_)
Phrase(words) ==
    IF Len(words) = 1 THEN words[1]
    ELSE words[1] \o <<" ">> \o Phrase(Tail(words))

w_codec == <<"c","o","d","e","c">>
w_not == <<"n","o","t">>
w_stream == <<"s","t","r","e","a","m">>
w_support == <<"s","u","p","p","o","r","t">>

\* the six fixed phrases
AudioPhrases == {
    Phrase(<< w_codec, w_not, <<"c","u","r","r","e","n","t","l","y">>,
              <<"s","u","p","p","o","r","t","e","d">>, <<"i","n">>,
              <<"c","o","n","t","a","i","n","e","r">> >>),
    Phrase(<< <<"c","o","u","l","d">>, w_not, <<"f","i","n","d">>, w_codec,
              <<"p","a","r","a","m","e","t","e","r","s">>, <<"f","o","r">>,
              w_stream >>),
    Phrase(<< <<"i","n","v","a","l","i","d">>, w_codec, <<"t","a","g">> >>),
    Phrase(<< <<"a","u","d","i","o">>, w_codec >>),
    Phrase(<< w_stream, <<"c","o","p","y">> >>),
    Phrase(<< <<"d","o","e","s">>, w_not, w_support, w_codec >>) }

PermissionDenied ==
    <<"P","e","r","m","i","s","s","i","o","n"," ","d","e","n","i","e","d">>

\* the classification execute() made of the primary diagnostic
ClassifiedAudio == pc = "fallback" \/ Ran("fallback")

\* C9: a diagnostic is classified audio-related if and only if its lower-cased
\* text contains one of the six phrases; changing the letter case of the text
\* does not change the classification, and "Permission denied" is not
\* audio-related.
C9_AudioErrorClassification ==
    primary_output.status = "failure" =>
        LET text == primary_output.text IN
        /\ ClassifiedAudio <=>
              \E phrase \in AudioPhrases : contains(to_lowercase(text), phrase)
        /\ is_audio_error(to_uppercase(text)) = ClassifiedAudio
        /\ is_audio_error(to_lowercase(text)) = ClassifiedAudio
        /\ is_audio_error(Capitalised(to_lowercase(text))) = ClassifiedAudio
        /\ contains(text, PermissionDenied) => ~ClassifiedAudio

C9_Witness ==
    /\ primary_output.status = "failure"
    /\ ClassifiedAudio
    /\ primary_output.text = to_uppercase(primary_output.text)
    /\ Len(primary_output.text) > 30

C9_WitnessNegative ==
    /\ primary_output.status = "failure"
    /\ ~ClassifiedAudio
    /\ contains(primary_output.text, PermissionDenied)

-----------------------------------------------------------------------------
(* Properties of parse_to_seconds                                          *)

\* a field written with digits and at most one '.', at least one digit
PlainNumber(part) ==
    /\ NumericChars(part)
    /\ \E i \in 1..Len(part) : IsDigit(part[i])
    /\ Cardinality({i \in 1..Len(part) : part[i] = "."}) <= 1

IsNumber(part) == ParseF64(part).ok
ValueOf(part) == ParseF64(part).v

\* colon expressions of the repository's tests with their values in seconds
ColonExamples == {
    << <<"2",":","3","0">>, Whole(150) >>,
    << <<"1",":","0","5",".","5">>, Fin(655, 1) >>,
    << <<"1",":","3","0",":","4","5">>, Whole(5445) >>,
    << <<"1","2",":","3","4",":","5","6",".","5">>, Fin(452965, 1) >>,
    << <<"1",".","5",":","3","0">>, Whole(120) >>,
    << <<" ","2",":","3","0"," ">>, Whole(150) >> }

\* C10: a trimmed expression containing ':' is split on ':'; two numeric parts
\* give minutes*60+seconds, three give hours*3600+minutes*60+seconds; any other
\* part count, an empty part, a part that is not a number and any unit letter
\* make it fail with InvalidTimeFormat; it never reaches the unit scanner.
C10_ColonExpressions ==
    (parsed.path # "none" /\ has(trim(expression), ":")) =>
        LET parts == split(trim(expression), ":")
            numeric == \A i \in 1..Len(parts) : IsNumber(parts[i])
        IN  /\ parsed.path = "colon"
            /\ (Len(parts) = 2 /\ numeric) =>
                  /\ parsed.ok
                  /\ parsed.v = Add(Times(ValueOf(parts[1]), 60), ValueOf(parts[2]))
            /\ (Len(parts) = 3 /\ numeric) =>
                  /\ parsed.ok
                  /\ parsed.v = Add(Add(Times(ValueOf(parts[1]), 3600),
                                        Times(ValueOf(parts[2]), 60)),
                                    ValueOf(parts[3]))
            /\ (Len(parts) \notin {2, 3} \/ ~numeric) => ~parsed.ok
            /\ (\E i \in 1..Len(parts) : parts[i] = <<>>) => ~parsed.ok
            /\ (\E i \in 1..Len(parts) :
                    NumericChars(parts[i]) /\ ~PlainNumber(parts[i])) => ~parsed.ok
            /\ (\E u \in {"h", "m", "s"} : has(expression, u)) => ~parsed.ok
            /\ \A ex \in ColonExamples :
                  expression = ex[1] => (parsed.ok /\ parsed.v = ex[2])

C10_Witness ==
    /\ parsed.path = "colon"
    /\ parsed.ok
    /\ Len(split(trim(expression), ":")) = 3
    /\ parsed.v = Fin(452965, 1)

C10_WitnessRejected ==
    /\ parsed.path = "colon"
    /\ ~parsed.ok
    /\ Len(split(trim(expression), ":")) = 2
    /\ \E i \in 1..2 : split(trim(expression), ":")[i] = <<>>

-----------------------------------------------------------------------------
(* Properties of the composite scanner                                     *)

Multiplier(unit) == CASE unit = "h" -> 3600 [] unit = "m" -> 60 [] OTHER -> 1

\* the pieces of a text that end at each of its unit letters, and what follows
\* the last of them
RECURSIVE TokensOf(_)
TokensOf(text) ==
    LET i == FirstIndex(text, UnitLetters)
    IN  IF i = 0 THEN <<>>
        ELSE <<SubSeq(text, 1, i)>> \o TokensOf(SubSeq(text, i + 1, Len(text)))

RECURSIVE TrailingOf(_)
TrailingOf(text) ==
    LET i == FirstIndex(text, UnitLetters)
    IN  IF i = 0 THEN text ELSE TrailingOf(SubSeq(text, i + 1, Len(text)))

TokenNumber(token) == SubSeq(trim_start(token), 1, Len(trim_start(token)) - 1)
TokenUnit(token) == token[Len(token)]

\* <number><unit>, possibly after blanks that separate it from the token before
IsToken(token) == PlainNumber(TokenNumber(token))

TokenSeconds(token) == Times(ValueOf(TokenNumber(token)), Multiplier(TokenUnit(token)))

\* one or more tokens, then nothing or a number
IsComposite(text) ==
    /\ TokensOf(text) # <<>>
    /\ \A i \in 1..Len(TokensOf(text)) : IsToken(TokensOf(text)[i])
    /\ TrailingOf(text) # <<>> => PlainNumber(trim_start(TrailingOf(text)))

RECURSIVE SumSeconds(_)
SumSeconds(tokens) ==
    IF tokens = <<>> THEN Whole(0)
    ELSE Add(TokenSeconds(tokens[1]), SumSeconds(Tail(tokens)))

TrailingSeconds(text) ==
    IF TrailingOf(text) = <<>> THEN Whole(0) ELSE ValueOf(trim_start(TrailingOf(text)))

RECURSIVE Concat(_)
Concat(pieces) == IF pieces = <<>> THEN <<>> ELSE pieces[1] \o Concat(Tail(pieces))

\* the two reorderings that generate every permutation of the tokens
SwapFirstTwo(tokens) ==
    IF Len(tokens) < 2 THEN tokens
    ELSE <<tokens[2], tokens[1]>> \o SubSeq(tokens, 3, Len(tokens))
Rotate(tokens) == Tail(tokens) \o <<tokens[1]>>

SameOutcome(a, b) == a.ok = b.ok /\ (a.ok => a.v = b.v)

C11_WitnessRepeated ==
    /\ expression = <<"5","m","5","m">>
    /\ parsed.ok
    /\ parsed.v = Whole(600)

\* length of the longest prefix of digits and '.'
PrefixLen(text) ==
    IF \E i \in 1..Len(text) : ~(IsDigit(text[i]) \/ text[i] = ".")
    THEN (CHOOSE i \in 1..Len(text) :
             /\ ~(IsDigit(text[i]) \/ text[i] = ".")
             /\ NumericChars(SubSeq(text, 1, i - 1))) - 1
    ELSE Len(text)

\* the numbers of a text as they are written, blanks separating them: each
\* with the factor of the unit letter that follows it immediately, or 1 when
\* none does; a piece that is neither gets factor 0
RECURSIVE ItemsOf(_)
ItemsOf(text) ==
    LET t == trim_start(text)
        n == PrefixLen(t)
        suffixed == n < Len(t) /\ t[n + 1] \in UnitLetters
        used == IF suffixed THEN n + 1 ELSE n
    IN  IF t = <<>> THEN <<>>
        ELSE IF n = 0 THEN << [number |-> <<>>, factor |-> 0] >>
        ELSE << [number |-> SubSeq(t, 1, n),
                 factor |-> IF suffixed THEN Multiplier(t[n + 1]) ELSE 1] >>
             \o ItemsOf(SubSeq(t, used + 1, Len(t)))

RECURSIVE SumItems(_)
SumItems(items) ==
    IF items = <<>> THEN Whole(0)
    ELSE Add(Times(ValueOf(items[1].number), items[1].factor), SumItems(Tail(items)))

\* C12: in the composite scanner a number without unit suffix is added as
\* seconds wherever it stands: at the end ('30m45' is 1845) and also before a
\* later <number><unit> token from which a blank separates it; in every
\* position it contributes its own value times 1.
C12_UnitlessNumberIsSeconds ==
    LET items == ItemsOf(trim(expression))
    IN  /\ (/\ parsed.path = "composite"
             /\ \A i \in 1..Len(items) : PlainNumber(items[i].number)) =>
               /\ parsed.ok
               /\ parsed.v = SumItems(items)
        /\ (parsed.path # "none" /\ expression = <<"3","0","m","4","5">>) =>
               parsed.v = Whole(1845)

-----------------------------------------------------------------------------
(* Properties of the single-unit fast path, of errors and of trimming      *)

DistinctUnits(text) == Cardinality({u \in UnitLetters : has(text, u)})

SameResult(a, b) == a.ok = b.ok /\ a.v = b.v /\ a.text = b.text

\* C13: for an expression without ':' that contains exactly one distinct unit
\* letter, parse_to_seconds gives the outcome (the value, or InvalidTimeFormat
\* with its text) that the composite scanner gives on the trimmed expression.
C13_FastPathIsScanner ==
    (/\ parsed.path # "none"
     /\ ~has(trim(expression), ":")
     /\ DistinctUnits(trim(expression)) = 1) =>
        /\ parsed.path \in {"single_unit", "composite"}
        /\ SameResult(parsed, parse_complex_format(trim(expression)))

\* the fast path taken on a fractional number of hours
C13_Witness ==
    /\ parsed.path = "single_unit"
    /\ DistinctUnits(trim(expression)) = 1
    /\ ends_with(trim(expression), "h")
    /\ parsed.ok
    /\ parsed.v = Whole(5400)

\* the fast path failing: a unit letter with no number, or with two '.'
C13_WitnessRejected ==
    /\ parsed.path = "single_unit"
    /\ ~parsed.ok
    /\ parsed.text = trim(expression)
    /\ Len(trim(expression)) \in {1, 4}

\* one distinct unit letter, yet not a single number followed by it
C13_WitnessScanner ==
    /\ parsed.path = "composite"
    /\ DistinctUnits(trim(expression)) = 1
    /\ parsed.ok

NumericChar(ch) == IsDigit(ch) \/ ch = "."
Allowed(ch) == NumericChar(ch) \/ ch \in UnitLetters \/ ch \in Whitespace

\* a unit letter with no digit or '.' since the unit letter before it
BareUnit(text) ==
    \E i \in 1..Len(TokensOf(text)) : SelectSeq(TokensOf(text)[i], NumericChar) = <<>>

OtherCharacter(text) == \E i \in 1..Len(text) : ~Allowed(text[i])

\* the digits and '.' gathered up to each unit letter, and after the last,
\* each make a number
NumbersWellFormed(text) ==
    /\ \A i \in 1..Len(TokensOf(text)) :
          PlainNumber(SelectSeq(TokensOf(text)[i], NumericChar))
    /\ SelectSeq(TrailingOf(text), NumericChar) # <<>> =>
          PlainNumber(SelectSeq(TrailingOf(text), NumericChar))

\* C14: an expression without ':' that contains a unit letter fails with
\* InvalidTimeFormat when a unit letter is met while no number is pending
\* ('h30m', '30mh') or when it contains a character that is not a digit, '.',
\* 'h', 'm', 's' or whitespace ('1h30x', 'abc30m'); no value is returned from
\* what was scanned before.  It succeeds exactly when neither happens and
\* every number gathered is well formed.
C14_ScannerRejects ==
    (/\ parsed.path # "none"
     /\ ~has(trim(expression), ":")
     /\ DistinctUnits(trim(expression)) >= 1) =>
        LET text == trim(expression)
        IN  /\ BareUnit(text) => ~parsed.ok
            /\ OtherCharacter(text) => ~parsed.ok
            /\ ~parsed.ok => parsed.text = text /\ parsed.v = Whole(0)
            /\ parsed.ok <=> (~OtherCharacter(text) /\ NumbersWellFormed(text))
            /\ expression \in { <<"h","3","0","m">>, <<"3","0","m","h">>,
                                <<"1","h","3","0","x">>, <<"a","b","c","3","0","m">> }
                  => ~parsed.ok

\* a well-formed token scanned, then a unit letter with no number
C14_Witness ==
    /\ parsed.path = "composite"
    /\ expression = <<"3","0","m","h">>
    /\ ~parsed.ok

\* a well-formed token scanned, then a character the scanner does not know
C14_WitnessOtherCharacter ==
    /\ parsed.path = "composite"
    /\ expression = <<"1","h","3","0","x">>
    /\ ~BareUnit(expression)
    /\ ~parsed.ok

\* whitespace put before and after an expression
Paddings == { <<>>, <<" ">>, <<"\t", "\n">> }

Blank(text) == \A i \in 1..Len(text) : text[i] \in Whitespace

\* C15: whitespace before and after an expression does not change the outcome
\* of parse_to_seconds, value or failure, and the empty expression and every
\* expression of whitespace only parse to 0.
C15_PaddingIgnored ==
    parsed.path # "none" =>
        /\ SameResult(parsed, parse_to_seconds(trim(expression)))
        /\ \A before \in Paddings, after \in Paddings :
              SameResult(parsed, parse_to_seconds(before \o expression \o after))
        /\ Blank(expression) => (parsed.ok /\ parsed.v = Whole(0))

\* a padded expression with a value
C15_Witness ==
    /\ parsed.path = "colon"
    /\ expression = <<" ","2",":","3","0"," ">>
    /\ parsed.ok
    /\ parsed.v = Whole(150)

\* whitespace only
C15_WitnessBlank ==
    /\ parsed.path = "empty"
    /\ Len(expression) = 3
    /\ parsed.ok
    /\ parsed.v = Whole(0)

\* a padded expression that fails
C15_WitnessRejected ==
    /\ parsed.path = "number"
    /\ expression = <<" ","x"," ">>
    /\ ~parsed.ok
    /\ parsed.text = <<"x">>

-----------------------------------------------------------------------------
(* Properties of range validation and of the formatters                    *)

Positive(v) == Leq(Whole(0), v) /\ v # Whole(0)

\* C16: validate_time_range(start, end) fails with InvalidTimeRange carrying
\* the given start and end whenever end <= start, equal values included, and
\* otherwise returns end - start, which is strictly positive; it never returns
\* a zero or negative duration, and validate_time_range(0, s) = s for s > 0.
C16_RangeValidated ==
    validated # NotValidated =>
        /\ Leq(end_sec, start_sec) =>
              validated = InvalidTimeRange(start_sec, end_sec)
        /\ ~Leq(end_sec, start_sec) =>
              /\ validated = Duration(Sub(end_sec, start_sec))
              /\ Positive(validated.v)
        /\ validated.tag = "Ok" => ~Leq(validated.v, Whole(0))
        /\ (start_sec = Whole(0) /\ Positive(end_sec)) => validated = Duration(end_sec)

NonNegative(v) == v.k = "big" \/ Leq(Whole(0), v)
Finite(v) == v.k = "fin"

\* floor(v) of a finite non-negative value
WholeSeconds(v) == v.m \div Pow10(v.e)

\* at least two digits, and no 0 put before more than one digit
PaddedToTwo(part) ==
    /\ Len(part) >= 2
    /\ AllDigits(part)
    /\ Len(part) > 2 => part[1] # "0"

\* two digits that read as a number in 0..59
UpTo59(part) == Len(part) = 2 /\ AllDigits(part) /\ DigitsValue(part) \in 0..59

\* C19: for s >= 0, format_time_readable(s) has the three components HH:MM:SS
\* exactly when the whole-hour count floor(s / 3600) is not zero and the two
\* components MM:SS otherwise; minutes and seconds are in 0..59; every
\* component is zero-padded to at least two digits; the fraction of s is
\* dropped (3661 -> 01:01:01, 150 -> 02:30, 61.9 -> 01:01).
C19_ReadableFormat ==
    (readable # <<>> /\ NonNegative(seconds)) =>
        LET parts == split(readable, ":")
            n == Len(parts)
            whole == WholeSeconds(seconds)
        IN  /\ n = (IF Finite(seconds) /\ whole < 3600 THEN 2 ELSE 3)
            /\ \A i \in 1..n : PaddedToTwo(parts[i])
            /\ UpTo59(parts[n - 1])
            /\ UpTo59(parts[n])
            /\ Finite(seconds) =>
                  /\ DigitsValue(parts[n]) = whole % 60
                  /\ DigitsValue(parts[n - 1]) = (whole \div 60) % 60
                  /\ n = 3 => DigitsValue(parts[1]) = whole \div 3600
            /\ seconds = Whole(3661) => readable = <<"0","1",":","0","1",":","0","1">>
            /\ seconds = Whole(150) => readable = <<"0","2",":","3","0">>
            /\ seconds = Fin(619, 1) => readable = <<"0","1",":","0","1">>

\* hours, minutes and seconds all present, a fraction dropped
C19_Witness ==
    /\ seconds = Fin(73235, 1)
    /\ readable = <<"0","2",":","0","2",":","0","3">>

\* no whole hour, a fraction dropped
C19_WitnessMinutes ==
    /\ seconds = Fin(35999, 1)
    /\ readable = <<"5","9",":","5","9">>

\* an hour count of three digits
C19_WitnessWide ==
    /\ seconds = Whole(360000 + 60 + 1)
    /\ readable = <<"1","0","0",":","0","1",":","0","1">>

\* the same whole number of seconds
SameWholeSeconds(a, b) ==
    IF Finite(a) /\ Finite(b) THEN WholeSeconds(a) = WholeSeconds(b) ELSE a = b

\* C20: for s >= 0, format_time(s) is MM-SS with MM the total whole minutes
\* floor(s / 60), not capped at 59, and SS floor(s) mod 60 in 0..59, both
\* zero-padded to at least two digits, the fraction dropped (3661 -> 61-01,
\* 3600 -> 60-00); so two values give the same text exactly when they have the
\* same whole number of seconds.
C20_CompactFormat ==
    (formatted # <<>> /\ NonNegative(seconds) /\ seconds # Inf) =>
        LET parts == split(formatted, "-")
            whole == WholeSeconds(seconds)
        IN  /\ Len(parts) = 2
            /\ PaddedToTwo(parts[1])
            /\ UpTo59(parts[2])
            /\ Finite(seconds) =>
                  /\ DigitsValue(parts[1]) = whole \div 60
                  /\ DigitsValue(parts[2]) = whole % 60
            /\ seconds = Whole(3661) => formatted = <<"6","1","-","0","1">>
            /\ seconds = Whole(3600) => formatted = <<"6","0","-","0","0">>
            /\ \A other \in SecondsValues :
                  (NonNegative(other) /\ other # Inf) =>
                      (format_time(other) = formatted
                          <=> SameWholeSeconds(other, seconds))

-----------------------------------------------------------------------------
(* Properties of the clip orchestration                                    *)

StartParsed == parse_to_seconds(request.start_time)

EndParsed == parse_to_seconds(request.end_time)

\* C17: every FFmpegCommand that clip_video or prepare_clip_command
\* constructs is built only after both time expressions parsed and the range
\* validated, its start is the parsed start expression, its duration is the
\* parsed end minus the parsed start, and that duration is strictly greater
\* than 0.
C17_CommandAfterValidation ==
    cmd # NoCommand =>
        /\ StartParsed.ok
        /\ EndParsed.ok
        /\ validated = Duration(Sub(EndParsed.v, StartParsed.v))
        /\ cmd.start_time = StartParsed.v
        /\ cmd.duration = Sub(EndParsed.v, StartParsed.v)
        /\ Positive(cmd.duration)

\* the error lines 90-92 of clip_video are expected to return, if any
TimeError ==
    CASE ~StartParsed.ok -> ClipErr("InvalidTimeFormat", StartParsed.text)
      [] ~EndParsed.ok -> ClipErr("InvalidTimeFormat", EndParsed.text)
      [] Leq(EndParsed.v, StartParsed.v) ->
             ClipErr("InvalidTimeRange", <<StartParsed.v, EndParsed.v>>)
      [] OTHER -> NotReturned

\* C18: once clip_video is past its first three calls, a request whose start
\* expression does not parse, else whose end expression does not parse, else
\* whose range is empty or reversed has returned exactly that error, and no
\* file has been looked for, no directory created, the tool neither probed
\* nor run.
C18_TimeErrorsReturnedFirst ==
    (clip_pc \in {"validate_input_file", "output_path", "ffmpeg", "execute",
                  "returned"}
        /\ TimeError # NotReturned) =>
        /\ clip_pc = "returned"
        /\ clip_result = TimeError
        /\ fs.log = <<>>
        /\ fs.dirs = {}
        /\ spawned = <<>>
        /\ pc = "none"

\* both expressions fail to parse while the input file is there: the error
\* names the start expression
C18_Witness ==
    /\ clip_pc = "returned"
    /\ ~StartParsed.ok
    /\ ~EndParsed.ok
    /\ fs.files = {InputFile}
    /\ clip_result = ClipErr("InvalidTimeFormat", <<"a", "b", "c">>)

C18_WitnessRange ==
    /\ clip_pc = "returned"
    /\ fs.files = {InputFile}
    /\ clip_result = ClipErr("InvalidTimeRange", <<Whole(50), Whole(10)>>)

C18_WitnessEnd ==
    /\ clip_pc = "returned"
    /\ StartParsed.ok
    /\ clip_result = ClipErr("InvalidTimeFormat", <<"1", "h", "x">>)

-----------------------------------------------------------------------------
(* Properties of the values and of the errors of parse_to_seconds          *)

\* the documented forms: empty, plain number, M:S, H:M:S, and the unit
\* composites in the widest reading, every text the scanner is described to
\* accept
Documented(text) ==
    \/ Blank(text)
    \/ PlainNumber(trim(text))
    \/ /\ has(trim(text), ":")
       /\ Len(split(trim(text), ":")) \in {2, 3}
       /\ \A i \in 1..Len(split(trim(text), ":")) :
             PlainNumber(split(trim(text), ":")[i])
    \/ /\ ~has(trim(text), ":")
       /\ \E i \in 1..Len(text) : text[i] \in UnitLetters
       /\ ~OtherCharacter(trim(text))
       /\ ~BareUnit(trim(text))
       /\ NumbersWellFormed(trim(text))

\* C21: for an expression without '-', a successful parse_to_seconds returns
\* a finite number greater than or equal to 0, and an expression outside the
\* documented forms fails with InvalidTimeFormat.
C21_ParsedIsFiniteNonNegative ==
    (parsed.path # "none" /\ ~has(expression, "-")) =>
        /\ parsed.ok => (Finite(parsed.v) /\ NonNegative(parsed.v))
        /\ ~Documented(expression) => ~parsed.ok

\* C22 as stated: whenever parse_to_seconds fails, the InvalidTimeFormat error
\* carries the original expression text supplied by the caller, on every
\* failing path.
C22_ErrorCarriesOriginal ==
    (parsed.path # "none" /\ ~parsed.ok) => parsed.text = expression

\* C22 amended: the error carries the expression with its leading and
\* trailing whitespace removed, on every failing path.
C22_ErrorCarriesTrimmed ==
    (parsed.path # "none" /\ ~parsed.ok) =>
        /\ parsed.text = trim(expression)
        /\ parsed.text # <<>>
        /\ parsed.path \in {"plain", "colon", "single_unit", "composite", "number"}

\* a padded expression that fails in the scanner
C22_Witness ==
    /\ ~parsed.ok
    /\ parsed.path = "composite"
    /\ expression = <<" ", "h", "1", " ">>
    /\ parsed.text = <<"h", "1">>

C22_WitnessPlain ==
    ~parsed.ok /\ parsed.path = "plain" /\ expression = <<" ", ".", ".">>

C22_WitnessColon ==
    ~parsed.ok /\ parsed.path = "colon" /\ expression = <<" ", "x", ":", "1">>

C22_WitnessSingleUnit ==
    ~parsed.ok /\ parsed.path = "single_unit" /\ expression = <<".", "s", " ">>

C22_WitnessNumber ==
    ~parsed.ok /\ parsed.path = "number" /\ expression = <<"x", "1", " ">>

-----------------------------------------------------------------------------
(* Properties of concurrent invocations                                    *)

\* C23: clip requests run concurrently do not interfere: whenever a task's
\* clip_video has returned Ok, the output file it names holds that task's own
\* clip, whole, as it would had the task run alone.
C23_NoInterference ==
    \A t \in TaskIds :
        (tasks[t].at = "returned" /\ tasks[t].outcome.tag = "Ok") =>
            disk[tasks[t].output_path] = [clip |-> tasks[t].ffmpeg, intact |-> TRUE]

-----------------------------------------------------------------------------
(* Properties of formatting and parsing together                           *)

\* a whole number of seconds
IsWhole(v) == v.k = "big" \/ (v.k = "fin" /\ v.e = 0)

\* the text parses to the value s.  A value of 10^14 seconds or more is over
\* 10^10 hours, which takes an hour field of more than ten digits.
ParsesBackTo(text, s) ==
    IF s.k = "big" THEN Len(split(text, ":")[1]) > 10
    ELSE parse_to_seconds(text).ok /\ parse_to_seconds(text).v = s

\* colon expressions with a whole value
RoundTripExamples ==
    { <<"1",":","3","0",":","4","5">>, <<"5","9",":","5","9">>,
      <<"1","0","0",":","0","1",":","0","1">>, <<"-","2",":","3","0">> }

\* C24: for every non-negative whole number of seconds s,
\* parse_to_seconds(format_time_readable(s)) succeeds and equals s, and for
\* every colon expression whose parsed value is whole the readable text of
\* that value parses back to the same value ('1:30:45' -> 5445 -> '01:30:45').
C24_ReadableRoundTrip ==
    readable # <<>> =>
        /\ (NonNegative(seconds) /\ IsWhole(seconds)) => ParsesBackTo(readable, seconds)
        /\ \A e \in RoundTripExamples :
              (parse_to_seconds(e).ok /\ parse_to_seconds(e).v = seconds) =>
                  ParsesBackTo(readable, seconds)
        /\ seconds = Whole(5445) => readable = <<"0","1",":","3","0",":","4","5">>

-----------------------------------------------------------------------------
(* Properties of what clip_video leaves behind and returns                 *)

\* both expressions parse and the end is after the start
ValidRange ==
    /\ StartParsed.ok
    /\ EndParsed.ok
    /\ Positive(Sub(EndParsed.v, StartParsed.v))

\* C25: for a request with a valid time range and output_dir set, once
\* clip_video has returned that directory exists, whether or not the tool
\* succeeded: it is created before the tool is run and is still there after.
C25_OutputDirExists ==
    (request.output_dir # <<>> /\ ValidRange) =>
        /\ clip_pc = "returned" => request.output_dir[1] \in fs.dirs
        /\ spawned # <<>> => request.output_dir[1] \in fs.dirs

\* C26: for the same input path, output path and expressions, wasm
\* generate_ffmpeg_command returns the command string of
\* FFmpegCommand::new(input, output, start, duration).get_command_string(),
\* and it fails exactly when parsing or range validation fails.
C26_BindingSameCommand ==
    clip_pc = "generated" =>
        /\ clip_result.tag = "Ok" =>
              clip_result.command =
                  get_command_string(new(PathString(request.input_file), output_path,
                                         StartParsed.v,
                                         Sub(EndParsed.v, StartParsed.v)))
        /\ clip_result.tag = "Err" <=> TimeError # NotReturned
        /\ clip_result.tag = "Err" => clip_result = TimeError

-----------------------------------------------------------------------------
(* Properties of execute(): spawn failures and the fallback arguments      *)

\* C27: when the primary invocation cannot be started after the probe
\* succeeded, execute() returns FFmpegError at once and the fallback is never
\* run; when the fallback invocation cannot be started, execute() ends with
\* FFmpegError and no further attempt.
C27_SpawnFailureEndsExecute ==
    /\ primary_output.status = "spawn_error" =>
          /\ pc = "done"
          /\ result = Err("FFmpegError", primary_output.text)
          /\ Kinds(spawned) = <<"probe", "primary">>
          /\ fallback_output = NoOutput
    /\ fallback_output.status = "spawn_error" =>
          /\ pc = "done"
          /\ result = Err("FFmpegError", fallback_output.text)
          /\ Kinds(spawned) = <<"probe", "primary", "fallback">>

\* the primary invocation could not be started
C27_Witness ==
    /\ pc = "done"
    /\ primary_output.status = "spawn_error"
    /\ spawned[1].started
    /\ ~spawned[2].started
    /\ result.kind = "FFmpegError"

\* the fallback invocation could not be started
C27_WitnessFallback ==
    /\ pc = "done"
    /\ fallback_output.status = "spawn_error"
    /\ ~spawned[3].started
    /\ result.kind = "FFmpegError"

\* an argument list with its audio tokens taken out: what comes before
\* "-c:a" and what comes from "-avoid_negative_ts" on
BeforeAudio(argv) == SubSeq(argv, 1, FirstIndex(argv, {"-c:a"}) - 1)
AfterAudio(argv) == SubSeq(argv, FirstIndex(argv, {"-avoid_negative_ts"}), Len(argv))
AudioOf(argv) ==
    SubSeq(argv, FirstIndex(argv, {"-c:a"}), FirstIndex(argv, {"-avoid_negative_ts"}) - 1)

AacPreserved == cmd.audio_codec = "Aac" /\ cmd.preserve_audio_quality

\* C28: whatever the policy, an audio-related primary failure leads to the
\* fallback invocation; the fallback argument list equals the primary one
\* exactly when the policy is Aac with preserve-quality true, and then the
\* fallback is the identical invocation run once more; for every other
\* policy and flag the two lists differ only in their audio tokens.
C28_FallbackVersusPolicy ==
    /\ PrimaryFailedAudio => (pc = "fallback" \/ Ran("fallback"))
    /\ build_fallback_command(cmd) = build_command(cmd) <=> AacPreserved
    /\ Ran("fallback") =>
          /\ Count("fallback") = 1
          /\ spawned[3].args = spawned[2].args <=> AacPreserved
          /\ BeforeAudio(spawned[3].args) = BeforeAudio(spawned[2].args)
          /\ AfterAudio(spawned[3].args) = AfterAudio(spawned[2].args)
          /\ BeforeAudio(spawned[3].args) \o AudioOf(spawned[3].args)
                \o AfterAudio(spawned[3].args) = spawned[3].args
          /\ ~AacPreserved => AudioOf(spawned[3].args) # AudioOf(spawned[2].args)

\* the policy is Aac with preserve-quality: the same invocation is run again
C28_Witness ==
    /\ AacPreserved
    /\ pc = "done"
    /\ Kinds(spawned) = <<"probe", "primary", "fallback">>
    /\ spawned[3].args = spawned[2].args

\* another policy: the lists differ in the audio tokens
C28_WitnessOther ==
    /\ cmd.audio_codec = "Mp3"
    /\ Ran("fallback")
    /\ AudioOf(spawned[2].args) = <<"-c:a", "mp3", "-b:a", "128k">>
    /\ AudioOf(spawned[3].args) = <<"-c:a", "aac", "-b:a", "128k">>

-----------------------------------------------------------------------------
(* Properties of the command clip_video builds and reports                 *)

\* C29: clip_video builds its command with the Auto policy and
\* preserve-quality true, and the command field of the ClipResult it returns
\* is the primary command string, with '-c:a copy', also when the primary
\* invocation failed and the fallback invocation, with '-c:a aac -b:a 128k',
\* produced the clip.
C29_ReportsPrimaryCommand ==
    clip_pc \in {"execute", "returned"} =>
        /\ cmd # NoCommand =>
              /\ cmd.audio_codec = "Auto"
              /\ cmd.preserve_audio_quality
        /\ Ran("primary") => AudioOf(spawned[2].args) = <<"-c:a", "copy">>
        /\ Ran("fallback") =>
              AudioOf(spawned[3].args) = <<"-c:a", "aac", "-b:a", "128k">>
        /\ (clip_pc = "returned" /\ clip_result.tag = "Ok") =>
              /\ clip_result.command = get_command_string(cmd)
              /\ clip_result.command = JoinWithSpaces(<<"ffmpeg">> \o spawned[2].args)
              /\ clip_result.command # JoinWithSpaces(<<"ffmpeg">> \o build_fallback_command(cmd))

\* the clip came from the fallback invocation, the command reported is the
\* primary one
C29_Witness ==
    /\ clip_pc = "returned"
    /\ clip_result.tag = "Ok"
    /\ Kinds(spawned) = <<"probe", "primary", "fallback">>
    /\ primary_output.status = "failure"
    /\ fallback_output.status = "success"
    /\ clip_result.command = JoinWithSpaces(<<"ffmpeg">> \o spawned[2].args)
    /\ AudioOf(spawned[3].args) = <<"-c:a", "aac", "-b:a", "128k">>

\* the places validate_input_file looks at for the request's input file
Candidates ==
    { request.input_file,
      [request.input_file EXCEPT !.dir = WorkspaceDir],
      [request.input_file EXCEPT !.dir = ClipperOutputDir] }

\* C30: validate_input_file succeeds exactly when the given path exists or a
\* file of the same name exists in the workspace directory or in the
\* clipper's output directory, and clip_video passes the request's own path,
\* unchanged, as the -i argument in either case.
C30_InputPathUnchanged ==
    /\ clip_pc \in {"output_path", "ffmpeg", "execute"} =>
          Candidates \cap fs.files # {}
    /\ (clip_pc = "returned" /\ clip_result.tag = "Err"
           /\ clip_result.kind = "FileNotFound") =>
          /\ Candidates \cap fs.files = {}
          /\ clip_result.detail = PathString(request.input_file)
    /\ (clip_pc \in {"execute", "returned"} /\ cmd # NoCommand) =>
          /\ cmd.input = PathString(request.input_file)
          /\ Ran("primary") =>
                SubSeq(spawned[2].args, 1, 2) = <<"-i", PathString(request.input_file)>>

\* the tool is run on an input path that does not exist: the file was found
\* in the clipper's output directory
C30_Witness ==
    /\ Ran("primary")
    /\ request.input_file \notin fs.files
    /\ [request.input_file EXCEPT !.dir = ClipperOutputDir] \in fs.files
    /\ spawned[2].args[2] = "videos/input.mp4"

C30_WitnessWorkspace ==
    /\ Ran("primary")
    /\ fs.files = {[request.input_file EXCEPT !.dir = WorkspaceDir]}
    /\ spawned[2].args[2] = "videos/input.mp4"

=============================================================================
